---------------------------- MODULE Spec2Model ----------------------------
(***************************************************************************)
(* A model of Argus (danielsingle/Argus): the content cache (index.rs),   *)
(* the text extractors (extractors.rs), the match engine and the search   *)
(* orchestrator (search.rs) and the ranking of results (types.rs).        *)
(*                                                                         *)
(* The module holds several specifications over one set of variables:     *)
(*   SpecMatch   the literal matching loop, one loop iteration per step    *)
(*   SpecDocx    the DOCX character scan                                   *)
(*   SpecExtract the extractor dispatch with its size check               *)
(*   SpecIndex   the cache object, its file and the files it describes     *)
(*   Spec        one run of the search engine over a file tree             *)
(*   SpecWarm    runs that follow one another, files changing in between   *)
(*   SpecCache   one run over every kind of cache file                     *)
(*   SpecPool    one run with the worker pool and its mutexes, step by     *)
(*               step                                                      *)
(*   SpecFind    find_matches, regex or literal, on every text and pattern *)
(*   SpecOcr     the OCR calls of the worker threads and their handles     *)
(*   SpecPdf     the PDF strategy with its OCR fallback                    *)
(*   SpecReuse   one file, cached by one run and read by another           *)
(* A specification keeps the variables of the other parts at their idle    *)
(* values.                                                                 *)
(***************************************************************************)
EXTENDS Integers, Sequences, FiniteSets, TLC

VARIABLES
    \* ---- match engine (search.rs, find_literal_matches) ----
    mText,      \* the extracted text handed to find_literal_matches
    mPattern,   \* config.pattern
    mCase,      \* config.case_sensitive
    mRegex,     \* config.use_regex
    mst,        \* the loop state: line, start, matches, positions, phase
    \* ---- DOCX scan (extractors.rs, extract_text_from_docx_xml) ----
    dDoc,       \* the document: a sequence of body elements
    dOut,       \* the extracted text
    dPhase,     \* "ready", "done"
    \* ---- extractor dispatch (extractors.rs, extract_text) ----
    eMeta,      \* path.metadata(): ok with the file's size, or not ok
    eType,      \* file_type
    eOcr,       \* ocr_enabled
    eInner,     \* what the format strategy returns if it is invoked
    eResult,    \* the ExtractionResult
    eInvoked,   \* the format strategy that was invoked, or "none"
    ePhase,     \* "ready", "done"
    \* ---- the cache (index.rs) and the file system it describes ----
    fs,         \* the files: path -> present?, modification time, size,
                \* and what its format strategy extracts from it
    index,      \* the Option<Index> a caller holds: {} or {an Index}
    disk,       \* the file at the index path
    iSave,      \* the last save: its result and the Index as it was saved
    iLoad,      \* the last load: its result and what it read
    iLookup,    \* the last get_valid_entry: its argument and its result
    iOps,       \* the number of operations made
    \* ---- the search engine (search.rs) ----
    sCfg,       \* config and index_config of the engine
    sPhase,     \* "none", "ready", "running", "done", "panicked"
    sPending,   \* the collected files no worker has taken yet
    sSnapshot,  \* index_ref: the clone of the index the workers read
    sResults,   \* results: the list the workers append to
    sStats,     \* stats
    sNewEntries,\* new_index_entries
    sLog,       \* per file, what its task did and the fingerprint it read
    sSaved,     \* the outcome of the save that ends the run
    sLoad,      \* the outcome of the load of the cache file in new
    sOut,       \* what search returned
    sPrev,      \* the run before this one: its flags, its log, its save
    sRuns,      \* the runs that may still be started
    sChanges,   \* the changes to the file tree that may still be made
    sFiles,     \* files: what collect_files returned
    \* ---- the worker pool of a run (search.rs, the parallel loop) ----
    wPc,        \* per worker, where it is in the closure
    wFile,      \* per worker, the file of its task
    wOut,       \* per worker, what its call of search_file_with_index gives
    mEntries,   \* the mutex of new_index_entries: 0, or the worker holding it
    mStats,     \* the mutex of stats
    mResults,   \* the mutex of results
    \* ---- the OCR engine handles (extractors.rs, extract_image_ocr) ----
    oTess,      \* TESSERACT: per thread, its cell: {} or {a handle}
    oLog,       \* the calls of extract_image_ocr made so far, in order
    oNext,      \* the handle the next successful LepTess::new returns
    \* ---- the PDF strategy (extractors.rs, extract_pdf) ----
    pIn,        \* the PDF file, ocr_enabled and the build's `ocr` feature
    pOut,       \* what extract_pdf did and returned
    pPhase,     \* "ready", "done"
    \* ---- one file under two runs (search.rs, search_file_with_index) ----
    uIn,        \* the file, the flags of the run that caches it and of the
                \* run that reads the cache
    uOut,       \* the entry written, the reader's outcome with the cache
                \* and its outcome with a fresh extraction
    uPhase      \* "ready", "written", "done"

matchVars == <<mText, mPattern, mCase, mRegex, mst>>
docxVars == <<dDoc, dOut, dPhase>>
extractVars == <<eMeta, eType, eOcr, eInner, eResult, eInvoked, ePhase>>

worldVars == <<fs, index, disk>>
indexVars == <<iSave, iLoad, iLookup, iOps>>
searchVars ==
    <<sCfg, sPhase, sPending, sSnapshot, sResults, sStats, sNewEntries, sLog,
      sSaved, sLoad, sOut, sPrev, sRuns, sChanges, sFiles>>
poolVars == <<wPc, wFile, wOut, mEntries, mStats, mResults>>
ocrVars == <<oTess, oLog, oNext>>
pdfVars == <<pIn, pOut, pPhase>>
reuseVars == <<uIn, uOut, uPhase>>

vars ==
    <<matchVars, docxVars, extractVars, worldVars, indexVars, searchVars,
      poolVars, ocrVars, pdfVars, reuseVars>>

\* What each specification leaves alone
laterVars == <<ocrVars, pdfVars, reuseVars>>
notMatchVars ==
    <<docxVars, extractVars, worldVars, indexVars, searchVars, poolVars,
      laterVars>>
notDocxVars ==
    <<matchVars, extractVars, worldVars, indexVars, searchVars, poolVars,
      laterVars>>
notExtractVars ==
    <<matchVars, docxVars, worldVars, indexVars, searchVars, poolVars,
      laterVars>>
notIndexVars ==
    <<matchVars, docxVars, extractVars, searchVars, poolVars, laterVars>>
notSearchVars ==
    <<matchVars, docxVars, extractVars, indexVars, poolVars, laterVars>>
notPoolVars == <<matchVars, docxVars, extractVars, indexVars, laterVars>>
earlierVars ==
    <<docxVars, extractVars, worldVars, indexVars, searchVars, poolVars>>
notOcrVars == <<matchVars, earlierVars, pdfVars, reuseVars>>
notPdfVars == <<matchVars, earlierVars, ocrVars, reuseVars>>
notReuseVars == <<matchVars, earlierVars, ocrVars, pdfVars>>

\* The idle value of each part: what its variables hold in the
\* specifications of the other parts.
MatchIdle ==
    /\ mText = << >>
    /\ mPattern = << >>
    /\ mCase = FALSE
    /\ mRegex = FALSE
    /\ mst = [phase |-> "idle"]

DocxIdle ==
    /\ dDoc = << >>
    /\ dOut = << >>
    /\ dPhase = "idle"

ExtractIdle ==
    /\ eMeta = [ok |-> FALSE, len |-> 0]
    /\ eType = "Other"
    /\ eOcr = FALSE
    /\ eInner = [text |-> << >>, success |-> FALSE, error |-> "not run"]
    /\ eResult = [text |-> << >>, success |-> FALSE, error |-> "not run"]
    /\ eInvoked = "none"
    /\ ePhase = "idle"

\* The paths of the file tree.  A file name on the host is a sequence of
\* bytes: the third one is not valid UTF-8.
Paths == {"a.txt", "b.txt", "c_ff.txt"}

\* extractors.rs:27: ExtractionResult::success
Success(text) == [text |-> text, success |-> TRUE, error |-> "none"]

\* extractors.rs:36: ExtractionResult::failure
Failure(error) == [text |-> << >>, success |-> FALSE, error |-> error]

\* A path at which there is no file: metadata() fails, exists() is false
Missing ==
    [present |-> FALSE, mtime |-> 0, size |-> 0,
     content |-> Failure("No such file")]

\* The file at the index path: never written
Absent == [kind |-> "absent", doc |-> {}]

NoSave == [done |-> FALSE, ok |-> FALSE, created |-> FALSE, saved |-> {}]

NoLoad ==
    [done |-> FALSE, tag |-> "none", value |-> {}, detail |-> {},
     read |-> Absent, after |-> NoSave]

NoLookup ==
    [done |-> FALSE, path |-> "a.txt", entry |-> {}, file |-> Missing,
     out |-> {}]

WorldIdle ==
    /\ fs = [p \in Paths |-> Missing]
    /\ index = {}
    /\ disk = Absent

IndexIdle ==
    /\ iSave = NoSave
    /\ iLoad = NoLoad
    /\ iLookup = NoLookup
    /\ iOps = 0

\* types.rs:10: FileType
FileTypes == {"Text", "Code", "Pdf", "Docx", "Image", "Other"}

\* types.rs:269, 287: the defaults of SearchConfig and IndexConfig
DefaultConfig ==
    [directory |-> "root", pattern |-> << >>, case_sensitive |-> FALSE,
     use_regex |-> FALSE, limit |-> 20, ocr_enabled |-> FALSE,
     save_index |-> FALSE, use_index |-> FALSE]

\* types.rs:325: SearchStats::new
NewStats ==
    [files_scanned |-> 0, files_matched |-> 0, total_matches |-> 0,
     files_skipped |-> 0, by_type |-> [t \in FileTypes |-> 0]]

\* A file no task of the run has looked at
NotSeen == [how |-> "none", mtime |-> 0, size |-> 0]

NoPrev ==
    [ran |-> FALSE, cfg |-> DefaultConfig, saved |-> "none",
     log |-> [p \in Paths |-> NotSeen]]

NoOut == [returned |-> FALSE, results |-> << >>, stats |-> NewStats]

SearchIdle ==
    /\ sCfg = DefaultConfig
    /\ sPhase = "idle"
    /\ sPending = {}
    /\ sSnapshot = {}
    /\ sResults = << >>
    /\ sStats = NewStats
    /\ sNewEntries = << >>
    /\ sLog = [p \in Paths |-> NotSeen]
    /\ sSaved = "none"
    /\ sLoad = "none"
    /\ sOut = NoOut
    /\ sPrev = NoPrev
    /\ sRuns = 0
    /\ sChanges = 0
    /\ sFiles = {}

\* The threads of the worker pool
NumWorkers == 2
Workers == 1..NumWorkers

\* No worker has a task and no mutex is held
\* A worker that is in no call of search_file_with_index
NoOutcome ==
    [result |-> {}, queued |-> << >>, how |-> "none", panicked |-> FALSE]

PoolIdle ==
    /\ wPc = [w \in Workers |-> "idle"]
    /\ wFile = [w \in Workers |-> "none"]
    /\ wOut = [w \in Workers |-> NoOutcome]
    /\ mEntries = 0
    /\ mStats = 0
    /\ mResults = 0

OcrIdle ==
    /\ oTess = [w \in Workers |-> {}]
    /\ oLog = << >>
    /\ oNext = 0

PdfIdle ==
    /\ pIn = [phase |-> "idle"]
    /\ pOut = [phase |-> "idle"]
    /\ pPhase = "idle"

ReuseIdle ==
    /\ uIn = [phase |-> "idle"]
    /\ uOut = [phase |-> "idle"]
    /\ uPhase = "idle"

LaterIdle == OcrIdle /\ PdfIdle /\ ReuseIdle

NotMatchIdle ==
    /\ DocxIdle /\ ExtractIdle /\ WorldIdle /\ IndexIdle /\ SearchIdle
    /\ PoolIdle /\ LaterIdle
NotDocxIdle ==
    /\ MatchIdle /\ ExtractIdle /\ WorldIdle /\ IndexIdle /\ SearchIdle
    /\ PoolIdle /\ LaterIdle
NotExtractIdle ==
    /\ MatchIdle /\ DocxIdle /\ WorldIdle /\ IndexIdle /\ SearchIdle
    /\ PoolIdle /\ LaterIdle
NotIndexIdle ==
    /\ MatchIdle /\ DocxIdle /\ ExtractIdle /\ SearchIdle /\ PoolIdle
    /\ LaterIdle
NotSearchIdle ==
    /\ MatchIdle /\ DocxIdle /\ ExtractIdle /\ IndexIdle /\ PoolIdle
    /\ LaterIdle
EarlierIdle ==
    /\ DocxIdle /\ ExtractIdle /\ WorldIdle /\ IndexIdle /\ SearchIdle
    /\ PoolIdle
NotOcrIdle == MatchIdle /\ EarlierIdle /\ PdfIdle /\ ReuseIdle
NotPdfIdle == MatchIdle /\ EarlierIdle /\ OcrIdle /\ ReuseIdle
NotReuseIdle == MatchIdle /\ EarlierIdle /\ OcrIdle /\ PdfIdle

(***************************************************************************)
(* Strings.  A Rust str is UTF-8: a sequence of characters, each of one    *)
(* to four bytes.  The code indexes strings by BYTE offset, and slicing a  *)
(* str at an offset that is not a character boundary, or past its end,     *)
(* panics.  A string is modelled as a sequence of characters; Width gives  *)
(* the number of bytes of each character.                                  *)
(*   "a" "b" "A" "i" " "   one byte each                                   *)
(*   "LF"       the line break, one byte                                   *)
(*   "eacute"   U+00E9, two bytes, its own lowercase                       *)
(*   "Idot"     U+0130 (capital I with dot above), two bytes; its          *)
(*              lowercase is the two characters "i" U+0307, three bytes    *)
(*   "cdot"     U+0307 (combining dot above), two bytes                    *)
(***************************************************************************)
Width(c) ==
    CASE c = "eacute" -> 2
      [] c = "Idot" -> 2
      [] c = "cdot" -> 2
      [] OTHER -> 1

\* char::to_lowercase: the characters c becomes
LowerChar(c) ==
    CASE c = "A" -> <<"a">>
      [] c = "Idot" -> <<"i", "cdot">>
      [] OTHER -> <<c>>

RECURSIVE ToLowercase(_)
\* str::to_lowercase (search.rs:42, search.rs:414)
ToLowercase(s) ==
    IF s = << >> THEN << >> ELSE LowerChar(Head(s)) \o ToLowercase(Tail(s))

RECURSIVE ByteLen(_)
\* str::len: the length in bytes, summed over the two halves of s
ByteLen(s) ==
    IF s = << >> THEN 0
    ELSE IF Len(s) = 1 THEN Width(s[1])
    ELSE ByteLen(SubSeq(s, 1, Len(s) \div 2))
             + ByteLen(SubSeq(s, Len(s) \div 2 + 1, Len(s)))

\* The byte offset at which character k of s starts (k = Len(s)+1: the end).
ByteOffset(s, k) == ByteLen(SubSeq(s, 1, k - 1))

\* str::is_char_boundary
IsCharBoundary(s, b) == \E k \in 1..(Len(s) + 1) : ByteOffset(s, k) = b

\* The character index that starts at byte offset b (a character boundary).
CharIndexAt(s, b) == CHOOSE k \in 1..(Len(s) + 1) : ByteOffset(s, k) = b

\* pat is a prefix of s from character k on
IsPrefixAt(s, k, pat) ==
    /\ k + Len(pat) - 1 <= Len(s)
    /\ SubSeq(s, k, k + Len(pat) - 1) = pat

\* str::find: the byte offset of the first occurrence of pat in s, or -1
\* (None).  The empty pattern is found at offset 0.
Find(s, pat) ==
    LET hits == {k \in 1..(Len(s) + 1) : IsPrefixAt(s, k, pat)}
    IN  IF hits = {} THEN -1
        ELSE ByteOffset(s, CHOOSE k \in hits : \A j \in hits : k <= j)

\* &s[from..]: the slice is valid iff from is a character boundary of s.
SliceFromOk(s, from) == from <= ByteLen(s) /\ IsCharBoundary(s, from)
SliceFrom(s, from) == SubSeq(s, CharIndexAt(s, from), Len(s))

\* &s[from..to]
SliceOk(s, from, to) ==
    /\ from <= to /\ to <= ByteLen(s)
    /\ IsCharBoundary(s, from) /\ IsCharBoundary(s, to)
Slice(s, from, to) == SubSeq(s, CharIndexAt(s, from), CharIndexAt(s, to) - 1)

\* s split at every "LF"; cur is the line being collected when s starts.
\* The k-th part lies between the (k-1)-th and the k-th line break.
SplitLF(s, cur) ==
    LET breaks == {i \in 1..Len(s) : s[i] = "LF"}
        n == Cardinality(breaks)
        brk(k) == IF k = 0 THEN 0
                  ELSE IF k = n + 1 THEN Len(s) + 1
                  ELSE CHOOSE i \in breaks :
                           Cardinality({j \in breaks : j <= i}) = k
        parts == [k \in 1..(n + 1) |-> SubSeq(s, brk(k - 1) + 1, brk(k) - 1)]
    IN  [parts EXCEPT ![1] = cur \o @]

\* A split that takes the whole text for one line
LinesWhole(s) == IF s = << >> THEN << >> ELSE <<s>>

\* str::lines: the lines of s without their line breaks; a final line break
\* does not open one more (empty) line, and the empty text has no line.
Lines(s) ==
    LET parts == SplitLF(s, << >>)
    IN  IF parts[Len(parts)] = << >> THEN SubSeq(parts, 1, Len(parts) - 1)
        ELSE parts

(***************************************************************************)
(* find_literal_matches (search.rs:406-438), one iteration of its loops    *)
(* per step.  The state is                                                 *)
(*   line     index of the line being scanned (for line in lines.iter())   *)
(*   start    the search cursor, a byte offset into search_line            *)
(*   matches  the Match values pushed so far                               *)
(*   at       for each pushed match, its line index and actual_pos         *)
(*   phase    "scan", "done" (the function returned) or "panic"            *)
(***************************************************************************)
Match(matched_text, context) ==
    [matched_text |-> matched_text, context |-> context]

LitStart ==
    [line |-> 1, start |-> 0, matches |-> << >>, at |-> << >>, phase |-> "scan"]

\* for line in lines.iter(): the next line, or the return after the last
NextLine(st, lines) ==
    IF st.line >= Len(lines)
    THEN [st EXCEPT !.phase = "done"]
    ELSE [st EXCEPT !.line = st.line + 1, !.start = 0]

\* start = actual_pos + 1 (search.rs:430): the cursor moves one BYTE on
Advance(actual_pos) == actual_pos + 1

\* One evaluation of `while let Some(pos) = search_line[start..].find(..)`
\* with the loop body (search.rs:424-434).
LitStep(st, text, pattern, lowercase, case_sensitive) ==
    LET lines == Lines(text)
    IN  IF st.line > Len(lines) THEN [st EXCEPT !.phase = "done"]
        ELSE
        LET line == lines[st.line]
            search_line == IF case_sensitive THEN line ELSE ToLowercase(line)
            search_pattern == IF case_sensitive THEN pattern ELSE lowercase
        IN  IF ~SliceFromOk(search_line, st.start)
            THEN [st EXCEPT !.phase = "panic"]
            ELSE
            LET pos == Find(SliceFrom(search_line, st.start), search_pattern)
                actual_pos == st.start + pos
                to == actual_pos + ByteLen(pattern)
            IN  IF pos = -1 THEN NextLine(st, lines)
                ELSE IF ~SliceOk(line, actual_pos, to)
                THEN [st EXCEPT !.phase = "panic"]
                ELSE
                LET pushed ==
                        [st EXCEPT
                            !.matches = Append(@, Match(Slice(line, actual_pos, to), line)),
                            !.at = Append(@, [line |-> st.line, pos |-> actual_pos]),
                            !.start = Advance(actual_pos)]
                IN  IF pushed.start >= ByteLen(search_line)
                    THEN NextLine(pushed, lines)
                    ELSE pushed

RECURSIVE LitRun(_, _, _, _, _)
LitRun(st, text, pattern, lowercase, case_sensitive) ==
    IF st.phase # "scan" THEN st
    ELSE CHOOSE r \in {LitRun(nxt, text, pattern, lowercase, case_sensitive) :
                       nxt \in {LitStep(st, text, pattern, lowercase,
                                        case_sensitive)}} : TRUE

\* find_literal_matches as a function: the final loop state
find_literal_matches(text, pattern, lowercase, case_sensitive) ==
    LitRun(LitStart, text, pattern, lowercase, case_sensitive)

(***************************************************************************)
(* SpecMatch: every text and pattern within the bounds, scanned step by    *)
(* step.                                                                   *)
(***************************************************************************)
MaxTextLen == 3
MaxPatLen == 2

TextChars == {"a", "A", "b", "eacute", "Idot", "LF"}
PatChars == {"a", "A", "eacute", "LF"}

SeqsUpTo(S, n) == UNION {[1..k -> S] : k \in 0..n}

InitMatch ==
    /\ mText \in SeqsUpTo(TextChars, MaxTextLen)
    /\ mPattern \in SeqsUpTo(PatChars, MaxPatLen)
    /\ mCase \in BOOLEAN
    /\ mRegex = FALSE
    /\ mst = LitStart
    /\ NotMatchIdle

MatchStep ==
    /\ mst.phase = "scan"
    /\ mst' = LitStep(mst, mText, mPattern, ToLowercase(mPattern), mCase)
    /\ UNCHANGED <<mText, mPattern, mCase, mRegex>>
    /\ UNCHANGED notMatchVars

NextMatch == MatchStep

SpecMatch == InitMatch /\ [][NextMatch]_vars

(***************************************************************************)
(* Claims about the literal matching loop.                                 *)
(***************************************************************************)
\* The scan of the text has ended: the function returned, or it panicked.
MatchEnded == mst.phase \in {"done", "panic"}

\* Every character of s is one byte wide (ASCII).
OneByte(s) == \A i \in 1..Len(s) : Width(s[i]) = 1

\* s and t are equal up to letter case
EqUpToCase(s, t) == ToLowercase(s) = ToLowercase(t)

\* The places of the text at which pat occurs (exactly, or up to letter
\* case): the line index and the byte offset in that line.
Occurrences(text, pat, case_sensitive) ==
    LET L == Lines(text)
        here(l, k) == SubSeq(L[l], k, k + Len(pat) - 1)
    IN  { [line |-> c[1], pos |-> ByteOffset(L[c[1]], c[2])] :
            c \in { d \in (1..Len(L)) \X (1..(Len(text) + 1)) :
                      /\ d[2] + Len(pat) - 1 <= Len(L[d[1]])
                      /\ IF case_sensitive THEN here(d[1], d[2]) = pat
                         ELSE EqUpToCase(here(d[1], d[2]), pat) } }

\* The places reported by a loop state
Reported(st) == {st.at[i] : i \in 1..Len(st.at)}

\* C7 (the claim as stated, for a non-empty pattern and case-sensitive
\* search): the scan of a text ends normally and has reported exactly one
\* match for every position at which the pattern occurs, overlapping
\* occurrences included.
C7_OnePerOccurrence ==
    (MatchEnded /\ mCase /\ mPattern # << >>) =>
        /\ mst.phase = "done"
        /\ Reported(mst) = Occurrences(mText, mPattern, TRUE)
        /\ Len(mst.at) = Cardinality(Occurrences(mText, mPattern, TRUE))

\* C7 on ASCII input (every character one byte): there the cursor's step of
\* one byte is one character, and the claim holds.
C7_AsciiOnePerOccurrence ==
    (MatchEnded /\ mCase /\ mPattern # << >> /\ OneByte(mText)) =>
        /\ mst.phase = "done"
        /\ Reported(mst) = Occurrences(mText, mPattern, TRUE)
        /\ Len(mst.at) = Cardinality(Occurrences(mText, mPattern, TRUE))

\* "aa" in "aaa" has been scanned: the case C7 names.
C7_AsciiWitness ==
    /\ mst.phase = "done" /\ mCase
    /\ mText = <<"a", "a", "a">> /\ mPattern = <<"a", "a">>
    /\ mst.at = <<[line |-> 1, pos |-> 0], [line |-> 1, pos |-> 1]>>

\* C8 (the claim as stated, for a non-empty pattern of one-byte characters):
\* the scan ends normally; with case sensitivity off it reports every place
\* where the line equals the pattern up to letter case, and the matched text
\* is the line's own text there; with case sensitivity on it reports the
\* exact-case occurrences only, a subset of the case-insensitive ones.
C8_CaseHandling ==
    (MatchEnded /\ mPattern # << >> /\ OneByte(mPattern)) =>
        /\ mst.phase = "done"
        /\ Reported(mst) = Occurrences(mText, mPattern, mCase)
        /\ Len(mst.at) = Cardinality(Occurrences(mText, mPattern, mCase))
        /\ \A i \in 1..Len(mst.matches) :
              LET line == Lines(mText)[mst.at[i].line]
                  k == CharIndexAt(line, mst.at[i].pos)
              IN  /\ mst.matches[i].matched_text
                        = SubSeq(line, k, k + Len(mPattern) - 1)
                  /\ IF mCase THEN mst.matches[i].matched_text = mPattern
                     ELSE EqUpToCase(mst.matches[i].matched_text, mPattern)
        /\ mCase =>
              Reported(mst) \subseteq
                  Reported(find_literal_matches(mText, mPattern,
                                                ToLowercase(mPattern), FALSE))

\* C8 on ASCII input: there to_lowercase keeps every byte offset.
C8_AsciiCaseHandling ==
    OneByte(mText) => C8_CaseHandling

\* The matches reported so far in line l
ReportedIn(st, l) == {i \in 1..Len(st.at) : st.at[i].line = l}

\* The loop has not panicked; every reported match lies within its line;
\* the places reported in one line go strictly upwards; and a line has at
\* most one match per cursor position
CursorDiscipline ==
    /\ mst.phase # "panic"
    /\ \A i \in 1..Len(mst.at) :
          mst.at[i].pos + ByteLen(mPattern)
              <= ByteLen(Lines(mText)[mst.at[i].line])
    /\ \A i, j \in 1..Len(mst.at) :
          (i < j /\ mst.at[i].line = mst.at[j].line) =>
              mst.at[i].pos < mst.at[j].pos
    /\ \A l \in 1..Len(Lines(mText)) :
          Cardinality(ReportedIn(mst, l)) <= ByteLen(Lines(mText)[l]) + 1

\* C30 (the claim as stated): on every text and every pattern, the empty
\* pattern, a pattern longer than the line and an empty line included, the
\* literal loop ends normally; the cursor strictly increases with each
\* reported match and no index is past the end of the line, so that a line
\* has at most one match per cursor position.
C30_LoopTerminates == CursorDiscipline

\* C30 on ASCII input (every character of the text one byte): there a step
\* of one byte is a step of one character and to_lowercase keeps the
\* offsets, and the claim holds.
C30_AsciiLoopTerminates == OneByte(mText) => CursorDiscipline

\* The empty pattern has been scanned for in the line "a" and in an empty
\* line: one match in each, and the loop has returned
C30_AsciiWitness ==
    /\ mst.phase = "done"
    /\ mPattern = << >>
    /\ mText = <<"a", "LF", "LF">>
    /\ mst.at = <<[line |-> 1, pos |-> 0], [line |-> 2, pos |-> 0]>>

(***************************************************************************)
(* extract_text_from_docx_xml (extractors.rs:411-454): a character scan    *)
(* of word/document.xml.  The XML text is a sequence of characters.        *)
(***************************************************************************)
StartsWith(s, p) == Len(p) <= Len(s) /\ SubSeq(s, 1, Len(p)) = p

\* The tag names the scan compares with
T_wt == <<"w", ":", "t">>
T_wt_selfclosing == <<"w", ":", "t", "/">>
T_wt_close == <<"/", "w", ":", "t">>
T_wp_close == <<"/", "w", ":", "p">>

RECURSIVE ReadTag(_, _)
\* The inner loop (extractors.rs:423-429): the characters up to the next
\* ">" are the tag, and the ">" is consumed.
ReadTag(xml, tag) ==
    IF xml = << >> THEN [tag |-> tag, rest |-> << >>]
    ELSE IF Head(xml) = ">" THEN [tag |-> tag, rest |-> Tail(xml)]
    ELSE ReadTag(Tail(xml), Append(tag, Head(xml)))

\* extractors.rs:431: the tag opens a text run
IsTextOpen(tag) == StartsWith(tag, T_wt) /\ ~StartsWith(tag, T_wt_selfclosing)

\* extractors.rs:434: the tag closes a text run
IsTextClose(tag) == tag = T_wt_close

\* A paragraph end that is seen only when the closing tag has a trailing
\* space, never for the plain </w:p>
IsParaEndSpaceOnly(tag) == StartsWith(tag, Append(T_wp_close, " "))

\* extractors.rs:437: the tag ends a paragraph
IsParaEnd(tag) == tag = T_wp_close \/ StartsWith(tag, Append(T_wp_close, " "))

RECURSIVE DocxScan(_, _, _, _)
\* The outer loop (extractors.rs:419-444)
DocxScan(xml, in_text, current_text, result) ==
    IF xml = << >> THEN result
    ELSE IF Head(xml) = "<"
    THEN LET r == ReadTag(Tail(xml), << >>)
         IN  IF IsTextOpen(r.tag) THEN DocxScan(r.rest, TRUE, << >>, result)
             ELSE IF IsTextClose(r.tag)
             THEN DocxScan(r.rest, FALSE, current_text, result \o current_text)
             ELSE IF IsParaEnd(r.tag)
             THEN DocxScan(r.rest, in_text, current_text, Append(result, "LF"))
             ELSE DocxScan(r.rest, in_text, current_text, result)
    ELSE IF in_text
    THEN DocxScan(Tail(xml), in_text, Append(current_text, Head(xml)), result)
    ELSE DocxScan(Tail(xml), in_text, current_text, result)

IsWhitespace(c) == c \in {" ", "LF"}

RECURSIVE TrimStart(_)
TrimStart(s) ==
    IF s # << >> /\ IsWhitespace(Head(s)) THEN TrimStart(Tail(s)) ELSE s

RECURSIVE TrimEnd(_)
TrimEnd(s) ==
    IF s # << >> /\ IsWhitespace(s[Len(s)])
    THEN TrimEnd(SubSeq(s, 1, Len(s) - 1)) ELSE s

\* str::trim
Trim(s) == TrimEnd(TrimStart(s))

RECURSIVE JoinLF(_)
\* [&str]::join("\n")
JoinLF(ls) ==
    IF ls = << >> THEN << >>
    ELSE IF Len(ls) = 1 THEN ls[1]
    ELSE ls[1] \o <<"LF">> \o JoinLF(Tail(ls))

\* .lines().map(trim).filter(not empty).join("\n") (extractors.rs:447-453,
\* and the same clean-up at extractors.rs:121-125 and 494-499)
CleanLines(text) ==
    JoinLF(SelectSeq([i \in 1..Len(Lines(text)) |-> Trim(Lines(text)[i])],
                     LAMBDA l : l # << >>))

extract_text_from_docx_xml(xml) == CleanLines(DocxScan(xml, FALSE, << >>, << >>))

(***************************************************************************)
(* SpecDocx: every document body within the bound, rendered as the XML of  *)
(* word/document.xml and scanned.  A body is a sequence of elements:       *)
(*   "a", "b"   a run <w:r><w:t>a</w:t></w:r>                              *)
(*   "sp"       a run <w:r><w:t xml:space="preserve"> </w:t></w:r>         *)
(*   "empty"    a run <w:r><w:t/></w:r> (self-closing)                     *)
(*   "tab"      a run <w:r><w:tab/></w:r>                                  *)
(*   "P"        the end of a paragraph and the start of the next           *)
(***************************************************************************)
MaxDocLen == 5

DocElements == {"a", "b", "sp", "empty", "tab", "P"}

X_preserve ==
    <<"<", "w", ":", "t", " ", "x", "m", "l", ":", "s", "p", "a", "c", "e",
      "=", "'", "p", "r", "e", "s", "e", "r", "v", "e", "'", ">">>
X_t_open == <<"<", "w", ":", "t", ">">>
X_t_close == <<"<", "/", "w", ":", "t", ">">>
X_r_open == <<"<", "w", ":", "r", ">">>
X_r_close == <<"<", "/", "w", ":", "r", ">">>
X_p_open == <<"<", "w", ":", "p", ">">>
X_p_close == <<"<", "/", "w", ":", "p", ">">>
X_head ==
    <<"<", "w", ":", "d", "o", "c", "u", "m", "e", "n", "t", ">",
      "<", "w", ":", "b", "o", "d", "y", ">">>
X_tail ==
    <<"<", "/", "w", ":", "b", "o", "d", "y", ">",
      "<", "/", "w", ":", "d", "o", "c", "u", "m", "e", "n", "t", ">">>

\* The XML of one element
RenderElement(e) ==
    CASE e = "P" -> X_p_close \o X_p_open
      [] e = "sp" -> X_r_open \o X_preserve \o <<" ">> \o X_t_close \o X_r_close
      [] e = "empty" -> X_r_open \o <<"<", "w", ":", "t", "/", ">">> \o X_r_close
      [] e = "tab" ->
            X_r_open \o <<"<", "w", ":", "t", "a", "b", "/", ">">> \o X_r_close
      [] OTHER -> X_r_open \o X_t_open \o <<e>> \o X_t_close \o X_r_close

RECURSIVE RenderElements(_)
RenderElements(doc) ==
    IF doc = << >> THEN << >>
    ELSE RenderElement(Head(doc)) \o RenderElements(Tail(doc))

\* The XML of a document: its paragraphs inside <w:document><w:body>
Render(doc) == X_head \o X_p_open \o RenderElements(doc) \o X_p_close \o X_tail

InitDocx ==
    /\ dDoc \in SeqsUpTo(DocElements, MaxDocLen)
    /\ dOut = << >>
    /\ dPhase = "ready"
    /\ NotDocxIdle

ExtractDocx ==
    /\ dPhase = "ready"
    /\ dOut' = extract_text_from_docx_xml(Render(dDoc))
    /\ dPhase' = "done"
    /\ UNCHANGED dDoc
    /\ UNCHANGED notDocxVars

NextDocx == ExtractDocx

SpecDocx == InitDocx /\ [][NextDocx]_vars

\* The character data of the runs of each paragraph, concatenated
RunText(e) ==
    CASE e = "sp" -> <<" ">>
      [] e \in {"empty", "tab", "P"} -> << >>
      [] OTHER -> <<e>>

RECURSIVE ParagraphTexts(_, _)
\* The paragraphs of a body, each as the concatenation of its run texts
ParagraphTexts(doc, cur) ==
    IF doc = << >> THEN <<cur>>
    ELSE IF Head(doc) = "P" THEN <<cur>> \o ParagraphTexts(Tail(doc), << >>)
    ELSE ParagraphTexts(Tail(doc), cur \o RunText(Head(doc)))

IsBlank(l) == \A i \in 1..Len(l) : IsWhitespace(l[i])

\* C10 (the claim as stated): the lines of the output are the paragraphs'
\* run texts, concatenated without separator, in document order, the blank
\* ones left out.
C10_RunsAsWritten ==
    dPhase = "done" =>
        Lines(dOut) = SelectSeq(ParagraphTexts(dDoc, << >>), LAMBDA l : ~IsBlank(l))

\* C10 amended: every line of the output is a paragraph's run texts,
\* concatenated without separator and stripped of its leading and trailing
\* whitespace; the paragraphs that are blank after that are left out, the
\* lines are in document order with one line break between two of them, and
\* self-closing <w:t/> adds nothing.
C10_RunsTrimmed ==
    dPhase = "done" =>
        LET paras == ParagraphTexts(dDoc, << >>)
            kept == SelectSeq([i \in 1..Len(paras) |-> Trim(paras[i])],
                              LAMBDA l : l # << >>)
        IN  /\ Lines(dOut) = kept
            /\ dOut = JoinLF(kept)

\* A paragraph of three runs (a space, "a", a self-closing one) and a second
\* paragraph have been scanned.
C10_Witness ==
    /\ dPhase = "done"
    /\ dDoc = <<"sp", "a", "empty", "P", "b">>
    /\ dOut = <<"a", "LF", "b">>

(***************************************************************************)
(* extract_text (extractors.rs:46-70): the size check, then the dispatch   *)
(* on the file type.  The format strategies (extract_text_file,            *)
(* extract_pdf, extract_docx, extract_image_ocr) are taken by what they    *)
(* return: `inner` is the ExtractionResult the strategy gives for the      *)
(* file.  The result carries, beside the fields of ExtractionResult, the   *)
(* strategy that was invoked.                                              *)
(***************************************************************************)
\* extractors.rs:12
MAX_FILE_SIZE == 50 * 1024 * 1024

\* A size check that rejects a file of exactly the limit, too
TooLargeInclusive(size) == size >= MAX_FILE_SIZE

\* extractors.rs:49: the size check
TooLarge(size) == size > MAX_FILE_SIZE

\* The strategy the match on file_type selects (extractors.rs:58-69)
StrategyOf(file_type, ocr_enabled) ==
    CASE file_type \in {"Text", "Code", "Other"} -> "extract_text_file"
      [] file_type = "Pdf" -> "extract_pdf"
      [] file_type = "Docx" -> "extract_docx"
      [] file_type = "Image" ->
            IF ocr_enabled THEN "extract_image_ocr" ELSE "none"

\* The result of path.metadata(): Ok with the length, or Err
MetaOk(len) == [ok |-> TRUE, len |-> len]
MetaErr == [ok |-> FALSE, len |-> 0]

\* extract_text: meta is the result of path.metadata()
extract_text(meta, file_type, ocr_enabled, inner) ==
    IF meta.ok /\ TooLarge(meta.len)
    THEN [result |-> Failure("File too large"), invoked |-> "none"]
    ELSE IF StrategyOf(file_type, ocr_enabled) = "none"
    THEN [result |-> Failure("OCR not enabled for images"), invoked |-> "none"]
    ELSE [result |-> inner, invoked |-> StrategyOf(file_type, ocr_enabled)]

(***************************************************************************)
(* SpecExtract: extract_text on files of every type, of sizes around the   *)
(* limit, with either value of the OCR flag and every kind of strategy     *)
(* outcome.  A file whose metadata cannot be read cannot be opened either. *)
(***************************************************************************)
ExtractSizes ==
    {0, 1024, MAX_FILE_SIZE - 1, MAX_FILE_SIZE, MAX_FILE_SIZE + 1,
     2 * MAX_FILE_SIZE}

InnerResults ==
    {Success(<< >>), Success(<<"a">>), Success(<<"a", "LF", "b">>),
     Failure("strategy failed")}

InitExtract ==
    /\ eMeta \in {MetaOk(n) : n \in ExtractSizes} \cup {MetaErr}
    /\ eType \in FileTypes
    /\ eOcr \in BOOLEAN
    /\ eInner \in InnerResults
    /\ ~eMeta.ok => eInner = Failure("strategy failed")
    /\ eResult = Failure("not run")
    /\ eInvoked = "none"
    /\ ePhase = "ready"
    /\ NotExtractIdle

ExtractText ==
    /\ ePhase = "ready"
    /\ LET r == extract_text(eMeta, eType, eOcr, eInner)
       IN  /\ eResult' = r.result
           /\ eInvoked' = r.invoked
    /\ ePhase' = "done"
    /\ UNCHANGED <<eMeta, eType, eOcr, eInner>>
    /\ UNCHANGED notExtractVars

NextExtract == ExtractText

SpecExtract == InitExtract /\ [][NextExtract]_vars

\* C9: for every file type and either value of the OCR flag, extract_text
\* on a file larger than 50 MiB returns the size-exceeded failure and has
\* invoked no format strategy; a file of 50 MiB or less is not rejected by
\* the size check.
C9_SizeLimit ==
    (ePhase = "done" /\ eMeta.ok) =>
        /\ eMeta.len > 50 * 1024 * 1024 =>
              /\ eResult = Failure("File too large")
              /\ eInvoked = "none"
        /\ eMeta.len <= 50 * 1024 * 1024 =>
              /\ eResult.error # "File too large"
              /\ (eType # "Image" \/ eOcr) =>
                    (eInvoked # "none" /\ eResult = eInner)

\* A PDF one byte over the limit, whose strategy would have succeeded, has
\* been rejected.
C9_Witness ==
    /\ ePhase = "done"
    /\ eMeta = MetaOk(50 * 1024 * 1024 + 1)
    /\ eType = "Pdf" /\ eOcr
    /\ eInner.success
    /\ ~eResult.success

(***************************************************************************)
(* The cache (index.rs).  An Index maps paths to entries; an entry holds   *)
(* the text extracted from a file and the fingerprint of the file it was   *)
(* extracted from: its modification time in whole seconds since the epoch  *)
(* and its size in bytes, as metadata() gave them.                         *)
(***************************************************************************)
INDEX_VERSION == 1

\* A regular file, as metadata() and its format strategy see it
File(mtime, size, content) ==
    [present |-> TRUE, mtime |-> mtime, size |-> size, content |-> content]

\* Path::exists (index.rs:152), the same test as metadata().ok() (index.rs:129)
exists(files, path) == files[path].present

\* Path::to_str, as serde's Serialize for Path calls it: Some only for a
\* path that is valid UTF-8
IsUtf8(path) == path # "c_ff.txt"

\* index.rs:34: IndexEntry::new
\* An entry that does not keep the modification time it is given
IndexEntryUnstamped(path, file_type, text, modified, file_size) ==
    [path |-> path, file_type |-> file_type, extracted_text |-> text,
     modified_timestamp |-> 0, file_size |-> file_size]

IndexEntry(path, file_type, extracted_text, modified_timestamp, file_size) ==
    [path |-> path, file_type |-> file_type,
     extracted_text |-> extracted_text,
     modified_timestamp |-> modified_timestamp, file_size |-> file_size]

\* A staleness test that wants both the time and the size to differ
is_staleBoth(entry, current_modified, current_size) ==
    /\ entry.modified_timestamp # current_modified
    /\ entry.file_size # current_size

\* index.rs:51: IndexEntry::is_stale
is_stale(entry, current_modified, current_size) ==
    \/ entry.modified_timestamp # current_modified
    \/ entry.file_size # current_size

\* HashMap::new
NoEntries == [p \in {} |-> Missing]

\* index.rs:73: Index::new
IndexNew(directory, now) ==
    [version |-> INDEX_VERSION, directory |-> directory, created_at |-> now,
     updated_at |-> now, entries |-> NoEntries]

\* index.rs:125: Index::get_valid_entry, an Option: {} or {entry}
get_valid_entry(idx, files, path) ==
    IF path \notin DOMAIN idx.entries THEN {}
    ELSE LET entry == idx.entries[path]
         IN  IF ~files[path].present THEN {}
             ELSE IF is_stale(entry, files[path].mtime, files[path].size)
                  THEN {}
                  ELSE {entry}

\* index.rs:146: Index::upsert_entry
upsert_entry(idx, entry) ==
    [idx EXCEPT !.entries =
        [p \in (DOMAIN idx.entries) \cup {entry.path} |->
            IF p = entry.path THEN entry ELSE idx.entries[p]]]

\* A prune that drops every entry
prune_everything(idx, files) == [idx EXCEPT !.entries = NoEntries]

\* index.rs:151: Index::prune_missing
prune_missing(idx, files) ==
    [idx EXCEPT !.entries =
        [p \in {q \in DOMAIN idx.entries : exists(files, q)} |->
            idx.entries[p]]]

(***************************************************************************)
(* The index file.  serde_json writes an Index as a JSON object whose      *)
(* "entries" member lists the map's pairs in the HashMap's iteration       *)
(* order; a path is written as a JSON string, which serde can do only for *)
(* a path that is valid UTF-8.                                             *)
(***************************************************************************)
PathToJson(path) == [str |-> path]

JsonToPath(json) == json.str

EntryToJson(entry) ==
    [path |-> PathToJson(entry.path), file_type |-> entry.file_type,
     extracted_text |-> entry.extracted_text,
     modified_timestamp |-> entry.modified_timestamp,
     file_size |-> entry.file_size]

JsonToEntry(json) ==
    [path |-> JsonToPath(json.path), file_type |-> json.file_type,
     extracted_text |-> json.extracted_text,
     modified_timestamp |-> json.modified_timestamp,
     file_size |-> json.file_size]

\* Serialize for Path fails on a path that is not UTF-8: the directory, a
\* key of the map or the path of an entry
Serializable(idx) ==
    /\ IsUtf8(idx.directory)
    /\ \A p \in DOMAIN idx.entries :
          IsUtf8(p) /\ IsUtf8(idx.entries[p].path)

\* The orders in which a HashMap can hand out its keys
Orders(keys) ==
    {o \in [1..Cardinality(keys) -> keys] :
        \A i, j \in 1..Cardinality(keys) : i # j => o[i] # o[j]}

\* index.rs:118: serde_json::to_writer_pretty
Encode(idx, order) ==
    [version |-> idx.version, directory |-> PathToJson(idx.directory),
     created_at |-> idx.created_at, updated_at |-> idx.updated_at,
     entries |-> [i \in 1..Len(order) |->
                    <<PathToJson(order[i]),
                      EntryToJson(idx.entries[order[i]])>>]]

\* index.rs:92: serde_json::from_reader; of two pairs with one key the
\* later one stays
Decode(doc) ==
    LET keys == {JsonToPath(doc.entries[i][1]) : i \in DOMAIN doc.entries}
        last(p) == CHOOSE i \in DOMAIN doc.entries :
                      /\ JsonToPath(doc.entries[i][1]) = p
                      /\ \A j \in DOMAIN doc.entries :
                            JsonToPath(doc.entries[j][1]) = p => j <= i
    IN  [version |-> doc.version, directory |-> JsonToPath(doc.directory),
         created_at |-> doc.created_at, updated_at |-> doc.updated_at,
         entries |-> [p \in keys |-> JsonToEntry(doc.entries[last(p)][2])]]

\* The file at the index path: a JSON document that deserializes into an
\* Index; bytes that do not (an empty or cut-off file among them); a file
\* that exists and can be neither opened nor created
JsonFile(doc) == [kind |-> "json", doc |-> {doc}]
Garbage == [kind |-> "garbage", doc |-> {}]
Locked == [kind |-> "locked", doc |-> {}]

\* index.rs:169: IndexError, and Ok
Ok(value) == [tag |-> "Ok", value |-> {value}, detail |-> {}]
Err(tag) == [tag |-> tag, value |-> {}, detail |-> {}]
VersionMismatch(expected, found) ==
    [tag |-> "VersionMismatch", value |-> {},
     detail |-> {[expected |-> expected, found |-> found]}]

\* A load that rejects older versions only
load_newer(file) ==
    IF file.kind = "absent" THEN Err("NotFound")
    ELSE IF file.kind = "locked" THEN Err("IoError")
    ELSE IF file.kind = "garbage" THEN Err("ParseError")
    ELSE LET idx == Decode(CHOOSE d \in file.doc : TRUE)
         IN  IF idx.version < INDEX_VERSION
             THEN VersionMismatch(INDEX_VERSION, idx.version)
             ELSE Ok(idx)

\* index.rs:85: Index::load
load(file) ==
    IF file.kind = "absent" THEN Err("NotFound")
    ELSE IF file.kind = "locked" THEN Err("IoError")
    ELSE IF file.kind = "garbage" THEN Err("ParseError")
    ELSE LET idx == Decode(CHOOSE d \in file.doc : TRUE)
         IN  IF idx.version # INDEX_VERSION
             THEN VersionMismatch(INDEX_VERSION, idx.version)
             ELSE Ok(idx)

\* index.rs:107: Index::save.  File::create empties the file before the
\* serializer runs; a serializer that fails leaves what it wrote so far.
save(idx, file, now, order) ==
    LET self == [idx EXCEPT !.updated_at = now]
    IN  IF file.kind = "locked"
        THEN [index |-> self, disk |-> file, ok |-> FALSE]
        ELSE IF ~Serializable(self)
        THEN [index |-> self, disk |-> Garbage, ok |-> FALSE]
        ELSE [index |-> self, disk |-> JsonFile(Encode(self, order)),
              ok |-> TRUE]

(***************************************************************************)
(* SpecIndex: a holder of one Index upserts, prunes, saves, loads and      *)
(* looks entries up, in any order, while the files of the tree are         *)
(* written, deleted and created around it.  The index file starts out      *)
(* missing, unusable, damaged, or written by a program of any format      *)
(* version.                                                                *)
(***************************************************************************)
MaxOps == 4
MaxVersion == 2

Times == {1, 2}
Sizes == {1024, 2048}
Versions == 0..MaxVersion

\* What a path of the tree can hold
FileStates ==
    {Missing} \cup {File(t, z, Success(<<"a">>)) : t \in Times, z \in Sizes}

\* The entries upsert_entry is given
Entries ==
    {IndexEntry(p, "Text", <<"a">>, t, z) :
        p \in Paths, t \in Times, z \in Sizes}

\* An index file left by a program whose format version is v
OldDocument(v) ==
    Encode([upsert_entry(IndexNew("root", 1),
                         IndexEntry("a.txt", "Text", <<"b">>, 1, 1024))
               EXCEPT !.version = v],
           <<"a.txt">>)

TheIndex == CHOOSE idx \in index : TRUE

InitIndex ==
    /\ fs = [p \in Paths |-> File(1, 1024, Success(<<"a">>))]
    /\ index = {IndexNew("root", 1)}
    /\ disk \in {Absent, Locked, Garbage}
                   \cup {JsonFile(OldDocument(v)) : v \in Versions}
    /\ iSave = NoSave
    /\ iLoad = NoLoad
    /\ iLookup = NoLookup
    /\ iOps = 0
    /\ NotIndexIdle

Op ==
    /\ iOps < MaxOps
    /\ iOps' = iOps + 1
    /\ UNCHANGED notIndexVars

UpsertEntry ==
    /\ Op
    /\ \E entry \in Entries : index' = {upsert_entry(TheIndex, entry)}
    /\ UNCHANGED <<fs, disk, iSave, iLoad, iLookup>>

PruneMissing ==
    /\ Op
    /\ index' = {prune_missing(TheIndex, fs)}
    /\ UNCHANGED <<fs, disk, iSave, iLoad, iLookup>>

Save ==
    /\ Op
    /\ \E now \in Times, order \in Orders(DOMAIN TheIndex.entries) :
          LET r == save(TheIndex, disk, now, order)
          IN  /\ index' = {r.index}
              /\ disk' = r.disk
              /\ iSave' = [done |-> TRUE, ok |-> r.ok,
                           created |-> disk.kind # "locked",
                           saved |-> {r.index}]
    /\ UNCHANGED <<fs, iLoad, iLookup>>

Load ==
    /\ Op
    /\ LET r == load(disk)
       IN  iLoad' = [done |-> TRUE, tag |-> r.tag, value |-> r.value,
                     detail |-> r.detail, read |-> disk, after |-> iSave]
    /\ UNCHANGED <<fs, index, disk, iSave, iLookup>>

GetValidEntry ==
    /\ Op
    /\ \E path \in Paths :
          iLookup' =
              [done |-> TRUE, path |-> path,
               entry |-> IF path \in DOMAIN TheIndex.entries
                         THEN {TheIndex.entries[path]} ELSE {},
               file |-> fs[path],
               out |-> get_valid_entry(TheIndex, fs, path)]
    /\ UNCHANGED <<fs, index, disk, iSave, iLoad>>

\* The world outside: a file of the tree is written, deleted or created
SetFile ==
    /\ Op
    /\ \E path \in Paths :
          \E f \in FileStates \ {fs[path]} :
              fs' = [fs EXCEPT ![path] = f]
    /\ UNCHANGED <<index, disk, iSave, iLoad, iLookup>>

NextIndex ==
    \/ UpsertEntry
    \/ PruneMissing
    \/ Save
    \/ Load
    \/ GetValidEntry
    \/ SetFile

SpecIndex == InitIndex /\ [][NextIndex]_vars

\* C1: get_valid_entry returns None when the path has no entry, when the
\* file's metadata cannot be read, and when the file's modification time or
\* its size differs from the entry's fingerprint; it returns the stored
\* entry, unchanged, when both are equal to the fingerprint.
C1_Staleness ==
    iLookup.done =>
        /\ iLookup.entry = {} => iLookup.out = {}
        /\ ~iLookup.file.present => iLookup.out = {}
        /\ \A e \in iLookup.entry :
              /\ ( /\ iLookup.file.present
                   /\ \/ iLookup.file.mtime # e.modified_timestamp
                      \/ iLookup.file.size # e.file_size )
                 => iLookup.out = {}
              /\ ( /\ iLookup.file.present
                   /\ iLookup.file.mtime = e.modified_timestamp
                   /\ iLookup.file.size = e.file_size )
                 => iLookup.out = {e}

\* An entry was looked up after its file's modification time had moved on
\* while its size stayed: nothing came back.
C1_Witness ==
    /\ iLookup.done
    /\ iLookup.file.present
    /\ iLookup.out = {}
    /\ \E e \in iLookup.entry :
          /\ iLookup.file.mtime # e.modified_timestamp
          /\ iLookup.file.size = e.file_size

\* The Index of a load that followed a save of this holder
RoundTrip(saved, loaded) ==
    /\ loaded.version = saved.version
    /\ loaded.directory = saved.directory
    /\ loaded.created_at = saved.created_at
    /\ loaded.entries = saved.entries

\* C2: a load that follows a save, the index file being one that can be
\* created, succeeds and yields a cache whose version, directory,
\* created_at and entries are those of the cache saved.
C2_RoundTrip ==
    (iLoad.done /\ iLoad.after.done /\ iLoad.after.created) =>
        /\ iLoad.after.ok
        /\ iLoad.tag = "Ok"
        /\ \A saved \in iLoad.after.saved, loaded \in iLoad.value :
              RoundTrip(saved, loaded)

\* C2 for caches whose paths are all valid UTF-8: the round trip holds.
C2_Utf8RoundTrip ==
    ( /\ iLoad.done /\ iLoad.after.done /\ iLoad.after.created
      /\ \A saved \in iLoad.after.saved : Serializable(saved) ) =>
        /\ iLoad.after.ok
        /\ iLoad.tag = "Ok"
        /\ iLoad.value # {}
        /\ \A saved \in iLoad.after.saved, loaded \in iLoad.value :
              RoundTrip(saved, loaded)

\* A cache of two entries went through save and load.
C2_Utf8Witness ==
    /\ iLoad.done /\ iLoad.after.ok
    /\ \E loaded \in iLoad.value : Cardinality(DOMAIN loaded.entries) = 2

\* C3: load of an index file whose version differs from INDEX_VERSION
\* returns VersionMismatch and no Index; a load that returns an Index read
\* a file whose version is INDEX_VERSION, and the Index has that version.
C3_FailClosed ==
    iLoad.done =>
        /\ \A doc \in iLoad.read.doc :
              doc.version # 1 =>
                  /\ iLoad.tag = "VersionMismatch"
                  /\ iLoad.value = {}
                  /\ iLoad.detail = {[expected |-> 1, found |-> doc.version]}
        /\ iLoad.value # {} =>
              /\ iLoad.tag = "Ok"
              /\ \E doc \in iLoad.read.doc : doc.version = 1
              /\ \A idx \in iLoad.value : idx.version = 1

\* A file of a newer format version, entries and all, was refused.
C3_Witness ==
    /\ iLoad.done
    /\ iLoad.tag = "VersionMismatch"
    /\ iLoad.value = {}
    /\ \E doc \in iLoad.read.doc :
          doc.version > 1 /\ Len(doc.entries) > 0

(***************************************************************************)
(* Results and their ranking (types.rs).  A confidence is a number between *)
(* 0.0 and 1.0; it is held here in millionths.                             *)
(***************************************************************************)
Min(a, b) == IF a <= b THEN a ELSE b
Max(a, b) == IF a >= b THEN a ELSE b

\* f64::ln of a match count, in millionths
LnMicro(n) ==
    CASE n <= 1 -> 0
      [] n = 2 -> 693147
      [] n = 3 -> 1098612
      [] n = 4 -> 1386294
      [] n = 5 -> 1609438
      [] n = 6 -> 1791759
      [] n = 7 -> 1945910
      [] n = 8 -> 2079442
      [] OTHER -> 2197225

\* types.rs:153: SearchResult::calculate_confidence
calculate_confidence(match_count, file_size) ==
    IF match_count = 0 THEN 0
    ELSE LET match_score ==
                 Min(LnMicro(match_count) + 1000000, 5000000) \div 5
             density ==
                 IF file_size > 0
                 THEN Min((match_count * 1024 * 1000000) \div file_size,
                          10000000) \div 10
                 ELSE 500000
             score == (match_score * 7 + density * 3) \div 10
         IN  Max(0, Min(score, 1000000))

\* types.rs:130: SearchResult::new
SearchResult(path, file_type, matches, file_size) ==
    [path |-> path, file_type |-> file_type, matches |-> matches,
     confidence |-> calculate_confidence(Len(matches), file_size),
     error |-> "none"]

\* types.rs:142: SearchResult::with_error
with_error(path, file_type, error) ==
    [path |-> path, file_type |-> file_type, matches |-> << >>,
     confidence |-> 0, error |-> error]

\* An ordering by match count alone
cmp_count(self, other) ==
    IF Len(other.matches) < Len(self.matches) THEN "Less"
    ELSE IF Len(other.matches) > Len(self.matches) THEN "Greater"
    ELSE "Equal"

\* types.rs:212: Ord for SearchResult
cmp(self, other) ==
    IF Len(other.matches) < Len(self.matches) THEN "Less"
    ELSE IF Len(other.matches) > Len(self.matches) THEN "Greater"
    ELSE IF other.confidence < self.confidence THEN "Less"
    ELSE IF other.confidence > self.confidence THEN "Greater"
    ELSE "Equal"

\* Vec::sort is stable: an element goes in front of the first one it is
\* Less than, behind everything else
InsertSorted(sorted, x) ==
    LET before == {i \in 1..Len(sorted) : cmp(x, sorted[i]) = "Less"}
        at == IF before = {} THEN Len(sorted) + 1
              ELSE CHOOSE i \in before : \A j \in before : i <= j
    IN  SubSeq(sorted, 1, at - 1) \o <<x>> \o SubSeq(sorted, at, Len(sorted))

RECURSIVE SortFrom(_, _)
SortFrom(sorted, rest) ==
    IF rest = << >> THEN sorted
    ELSE SortFrom(InsertSorted(sorted, Head(rest)), Tail(rest))

\* search.rs:169: final_results.sort()
sort(results) == SortFrom(<< >>, results)

\* A cut that keeps the end of the list
truncateLast(results, limit) ==
    IF Len(results) > limit
    THEN SubSeq(results, Len(results) - limit + 1, Len(results))
    ELSE results

\* search.rs:172: final_results.truncate(limit)
truncate(results, limit) ==
    IF Len(results) > limit THEN SubSeq(results, 1, limit) ELSE results

\* types.rs:330: SearchStats::inc_scanned
inc_scanned(stats) ==
    [stats EXCEPT !.files_scanned = stats.files_scanned + 1]

\* A count that adds one match for a file, however many it has
add_resultOnce(stats, result) ==
    IF result.matches # << >>
    THEN [stats EXCEPT
            !.files_matched = stats.files_matched + 1,
            !.total_matches = stats.total_matches + 1,
            !.by_type[result.file_type] = stats.by_type[result.file_type] + 1]
    ELSE stats

\* types.rs:335: SearchStats::add_result
add_result(stats, result) ==
    IF result.matches # << >>
    THEN [stats EXCEPT
            !.files_matched = stats.files_matched + 1,
            !.total_matches = stats.total_matches + Len(result.matches),
            !.by_type[result.file_type] = stats.by_type[result.file_type] + 1]
    ELSE stats

\* types.rs:344: SearchStats::inc_skipped
inc_skipped(stats) ==
    [stats EXCEPT !.files_skipped = stats.files_skipped + 1]

(***************************************************************************)
(* The search engine (search.rs).  A run is SearchEngine::new, then        *)
(* search: the collection of the files, one task per file on the worker    *)
(* pool, in any order, and the end of the run once every task has          *)
(* returned.  A panic in a task ends the process.                          *)
(***************************************************************************)
\* path.extension()
ExtensionOf(path) ==
    CASE path \in {"a.txt", "b.txt", "c_ff.txt"} -> "txt"
      [] path = "d.png" -> "png"
      [] path = "e.pdf" -> "pdf"
      [] OTHER -> ""

\* types.rs:51: FileType::from_extension
from_extension(ext) ==
    CASE ext \in {"txt", "md", "log", "csv", "json", "xml", "html"} -> "Text"
      [] ext \in {"rs", "py", "js", "c", "go", "sh"} -> "Code"
      [] ext = "pdf" -> "Pdf"
      [] ext = "docx" -> "Docx"
      [] ext \in {"png", "jpg", "jpeg", "gif", "bmp", "tiff", "webp"} -> "Image"
      [] OTHER -> "Other"

\* search.rs:32: the index SearchEngine::new starts the run with
new(cfg, file, now) ==
    IF cfg.use_index \/ cfg.save_index
    THEN LET loaded == load(file)
         IN  IF loaded.tag = "Ok" THEN loaded.value
             ELSE IF cfg.save_index
                  THEN {IndexNew(cfg.directory, now)}
                  ELSE {}
    ELSE {}

\* search.rs:183: collect_files.  The files of the tree are regular,
\* visible, not binary, and no extension filter is set.
collect_files(files) == {p \in Paths : files[p].present}

\* The regex syntax of the patterns: every character stands for itself but
\* "lparen", which opens a group.  A group that is never closed is an error
\* of RegexBuilder::build.
RegexCompiles(pattern) == \A i \in 1..Len(pattern) : pattern[i] # "lparen"

\* A construction that takes any pattern for a regex
BuildPatternLenient(cfg) == IF cfg.use_regex THEN "Regex" ELSE "Literal"

\* search.rs:33-45: the pattern SearchEngine::new compiles, or the error
BuildPattern(cfg) ==
    IF cfg.use_regex
    THEN IF RegexCompiles(cfg.pattern) THEN "Regex" ELSE "Err"
    ELSE "Literal"

\* search.rs:47-49: whether new loads the cache file, and how that ends
Loaded(cfg, file) ==
    IF cfg.use_index \/ cfg.save_index
    THEN IF load(file).tag = "Ok" THEN "ok" ELSE "failed"
    ELSE "none"

\* The simple case folding of the regex engine
RegexFold(c) == IF c = "A" THEN "a" ELSE c

\* The regex of a pattern of plain characters matches s
RegexMatches(s, pattern, case_sensitive) ==
    /\ Len(s) = Len(pattern)
    /\ \A i \in 1..Len(s) :
          IF case_sensitive THEN s[i] = pattern[i]
          ELSE RegexFold(s[i]) = RegexFold(pattern[i])

RECURSIVE RegexLine(_, _, _, _, _)
\* regex.find_iter(line) from character k on: the leftmost matches, none
\* overlapping another
RegexLine(line, k, pattern, case_sensitive, acc) ==
    IF k + Len(pattern) - 1 > Len(line) THEN acc
    ELSE LET here == SubSeq(line, k, k + Len(pattern) - 1)
         IN  IF RegexMatches(here, pattern, case_sensitive)
             THEN RegexLine(line, k + Max(Len(pattern), 1), pattern,
                            case_sensitive, Append(acc, Match(here, line)))
             ELSE RegexLine(line, k + 1, pattern, case_sensitive, acc)

RECURSIVE RegexLines(_, _, _)
RegexLines(lines, pattern, case_sensitive) ==
    IF lines = << >> THEN << >>
    ELSE RegexLine(Head(lines), 1, pattern, case_sensitive, << >>)
         \o RegexLines(Tail(lines), pattern, case_sensitive)

\* search.rs:392: find_regex_matches
find_regex_matches(text, pattern, case_sensitive) ==
    RegexLines(Lines(text), pattern, case_sensitive)

\* search.rs:382: find_matches, the final state of the matching loop
find_matches(text, cfg) ==
    IF BuildPattern(cfg) = "Literal"
    THEN find_literal_matches(text, cfg.pattern, ToLowercase(cfg.pattern),
                              cfg.case_sensitive)
    ELSE [LitStart EXCEPT
            !.phase = "done",
            !.matches = find_regex_matches(text, cfg.pattern,
                                           cfg.case_sensitive)]

\* What a file task gives back: the Option<SearchResult>, the entry it
\* queued, how it came to the text and whether it panicked
TaskOutcome(result, queued, how, panicked) ==
    [result |-> result, queued |-> queued, how |-> how,
     panicked |-> panicked]

\* search.rs:272: search_file_with_index
search_file_with_index(path, files, idx, cfg) ==
    LET file_type == from_extension(ExtensionOf(path))
        f == files[path]
    IN  IF ~f.present THEN TaskOutcome({}, << >>, "nometa", FALSE)
        ELSE
        LET hit == IF idx = {} THEN {}
                   ELSE get_valid_entry(CHOOSE i \in idx : TRUE, files, path)
            extraction ==
                extract_text(MetaOk(f.size), file_type, cfg.ocr_enabled,
                             f.content).result
        IN  IF hit = {} /\ ~extraction.success
            THEN TaskOutcome({with_error(path, file_type, extraction.error)},
                             << >>, "failed", FALSE)
            ELSE
            LET text == IF hit # {}
                        THEN (CHOOSE e \in hit : TRUE).extracted_text
                        ELSE extraction.text
                queued == IF hit = {} /\ idx # {} /\ cfg.save_index
                          THEN <<IndexEntry(path, file_type, extraction.text,
                                            f.mtime, f.size)>>
                          ELSE << >>
                how == IF hit # {} THEN "cached" ELSE "extracted"
            IN  CHOOSE outcome \in
                    {IF found.phase = "panic"
                     THEN TaskOutcome({}, queued, how, TRUE)
                     ELSE IF found.matches = << >>
                     THEN TaskOutcome({}, queued, how, FALSE)
                     ELSE TaskOutcome(
                              {SearchResult(path, file_type, found.matches,
                                            f.size)},
                              queued, how, FALSE) :
                     found \in {find_matches(t, cfg) : t \in {text}}} : TRUE

\* An update of the statistics that counts a failed file like any other
UpdateStatsNoSkip(stats, result) ==
    LET scanned == inc_scanned(stats)
    IN  IF result = {} THEN scanned
        ELSE add_result(scanned, CHOOSE r \in result : TRUE)

\* search.rs:108: the update of the statistics for one task
UpdateStats(stats, result) ==
    LET scanned == inc_scanned(stats)
    IN  IF result = {} THEN scanned
        ELSE LET res == CHOOSE r \in result : TRUE
             IN  IF res.error # "none" THEN inc_skipped(scanned)
                 ELSE add_result(scanned, res)

\* A store that keeps whatever result a task gives
StoreResultAny(results, result) ==
    IF result = {} THEN results
    ELSE Append(results, CHOOSE r \in result : TRUE)

\* A store that keeps a result only if it has two matches or more
StoreResultMulti(results, result) ==
    IF result = {} THEN results
    ELSE LET res == CHOOSE r \in result : TRUE
         IN  IF Len(res.matches) >= 2 THEN Append(results, res) ELSE results

\* search.rs:122: the result is stored if it has matches
StoreResult(results, result) ==
    IF result = {} THEN results
    ELSE LET res == CHOOSE r \in result : TRUE
         IN  IF res.matches # << >> THEN Append(results, res) ELSE results

\* search.rs:143: the queued entries go into the index, in queue order
RECURSIVE UpsertAll(_, _)
UpsertAll(idx, entries) ==
    IF entries = << >> THEN idx
    ELSE UpsertAll(upsert_entry(idx, Head(entries)), Tail(entries))

\* index.rs:200: current_timestamp, as the runs read it
RunClock == {2}

NewEngine(cfg) ==
    /\ sPhase \in {"none", "done"}
    /\ sRuns > 0
    /\ sRuns' = sRuns - 1
    /\ sCfg' = cfg
    /\ IF BuildPattern(cfg) = "Err"
       THEN /\ sPhase' = "failed"
            /\ index' = {}
            /\ sLoad' = "none"
       ELSE /\ sPhase' = "ready"
            /\ \E now \in RunClock : index' = new(cfg, disk, now)
            /\ sLoad' = Loaded(cfg, disk)
    /\ sPrev' = IF sPhase = "done"
                THEN [ran |-> TRUE, cfg |-> sCfg, saved |-> sSaved,
                      log |-> sLog]
                ELSE NoPrev
    /\ sPending' = {}
    /\ sSnapshot' = {}
    /\ sResults' = << >>
    /\ sStats' = NewStats
    /\ sNewEntries' = << >>
    /\ sLog' = [p \in Paths |-> NotSeen]
    /\ sSaved' = "none"
    /\ sOut' = NoOut
    /\ sFiles' = {}
    /\ UNCHANGED <<fs, disk, sChanges>>
    /\ UNCHANGED notSearchVars

\* search.rs:76-101: the start of search, up to the parallel loop
StartSearch ==
    /\ sPhase = "ready"
    /\ sPhase' = "running"
    /\ sFiles' = collect_files(fs)
    /\ sPending' = collect_files(fs)
    /\ sSnapshot' = index
    /\ UNCHANGED <<sCfg, sResults, sStats, sNewEntries, sLog, sSaved, sLoad,
                   sOut, sPrev, sRuns, sChanges>>
    /\ UNCHANGED worldVars
    /\ UNCHANGED notSearchVars

\* search.rs:104-132: the closure of the parallel loop, for one file
FileTask(path) ==
    /\ sPhase = "running"
    /\ path \in sPending
    /\ LET out == search_file_with_index(path, fs, sSnapshot, sCfg)
       IN  /\ sLog' = [sLog EXCEPT ![path] =
                          [how |-> out.how, mtime |-> fs[path].mtime,
                           size |-> fs[path].size]]
           /\ sNewEntries' = sNewEntries \o out.queued
           /\ IF out.panicked
              THEN /\ sPhase' = "panicked"
                   /\ UNCHANGED <<sStats, sResults>>
              ELSE /\ sPhase' = "running"
                   /\ sStats' = UpdateStats(sStats, out.result)
                   /\ sResults' = StoreResult(sResults, out.result)
    /\ sPending' = sPending \ {path}
    /\ UNCHANGED <<sCfg, sSnapshot, sSaved, sLoad, sOut, sPrev, sRuns,
                   sChanges, sFiles>>
    /\ UNCHANGED worldVars
    /\ UNCHANGED notSearchVars

\* The index as the end of the run saves it
Merged == prune_missing(UpsertAll(TheIndex, sNewEntries), fs)

\* A parallel loop that is over once every file has been handed out
JoinedEarly == sPending = {}

\* search.rs:104, 132: for_each returns once the closure has returned for
\* every file
Joined == sPending = {} /\ \A w \in Workers : wPc[w] = "idle"

\* An end of search that saves the index whenever the engine has one
FinishSearchAlways ==
    /\ sPhase = "running"
    /\ Joined
    /\ IF index # {}
       THEN \E now \in RunClock :
              \E order \in Orders(DOMAIN Merged.entries) :
                 LET r == save(Merged, disk, now, order)
                 IN  /\ index' = {r.index}
                     /\ disk' = r.disk
                     /\ sSaved' = IF r.ok THEN "ok" ELSE "failed"
       ELSE /\ UNCHANGED <<index, disk>>
            /\ sSaved' = "none"
    /\ sOut' = [returned |-> TRUE,
                results |-> truncate(sort(sResults), sCfg.limit),
                stats |-> sStats]
    /\ sPhase' = "done"
    /\ UNCHANGED <<fs, sCfg, sPending, sSnapshot, sResults, sStats,
                   sNewEntries, sLog, sLoad, sPrev, sRuns, sChanges, sFiles>>
    /\ UNCHANGED notSearchVars

\* search.rs:134-179: the end of search, after the parallel loop
FinishSearch ==
    /\ sPhase = "running"
    /\ Joined
    /\ IF sCfg.save_index /\ index # {}
       THEN \E now \in RunClock :
              \E order \in Orders(DOMAIN Merged.entries) :
                 LET r == save(Merged, disk, now, order)
                 IN  /\ index' = {r.index}
                     /\ disk' = r.disk
                     /\ sSaved' = IF r.ok THEN "ok" ELSE "failed"
       ELSE /\ UNCHANGED <<index, disk>>
            /\ sSaved' = "none"
    /\ sOut' = [returned |-> TRUE,
                results |-> truncate(sort(sResults), sCfg.limit),
                stats |-> sStats]
    /\ sPhase' = "done"
    /\ UNCHANGED <<fs, sCfg, sPending, sSnapshot, sResults, sStats,
                   sNewEntries, sLog, sLoad, sPrev, sRuns, sChanges, sFiles>>
    /\ UNCHANGED notSearchVars

\* Between two runs a file of the tree is written, deleted or created
ChangeFile(states) ==
    /\ sPhase \in {"none", "done"}
    /\ sChanges > 0
    /\ sChanges' = sChanges - 1
    /\ \E path \in Paths :
          \E f \in states \ {fs[path]} :
              fs' = [fs EXCEPT ![path] = f]
    /\ UNCHANGED <<index, disk>>
    /\ UNCHANGED <<sCfg, sPhase, sPending, sSnapshot, sResults, sStats,
                   sNewEntries, sLog, sSaved, sLoad, sOut, sPrev, sRuns,
                   sFiles>>
    /\ UNCHANGED notSearchVars

(***************************************************************************)
(* Spec: one run of the engine, over every tree of three files and every   *)
(* configuration within the bounds.  The index file is missing or was      *)
(* left by an earlier run.                                                 *)
(***************************************************************************)
MaxLimit == 2

Patterns == {<<"a">>, <<"a", "LF", "a">>, <<"eacute">>}

LiteralConfigs ==
    {[DefaultConfig EXCEPT !.pattern = pat, !.case_sensitive = cs,
                           !.limit = lim, !.save_index = sv,
                           !.use_index = us] :
        pat \in Patterns, cs \in BOOLEAN, lim \in 1..MaxLimit,
        sv \in BOOLEAN, us \in BOOLEAN}

\* The regex patterns: "a", and "(a", which does not compile
RegexPatterns == {<<"a">>, <<"lparen", "a">>}

RegexConfigs ==
    {[DefaultConfig EXCEPT !.pattern = pat, !.use_regex = TRUE,
                           !.limit = MaxLimit, !.save_index = sv,
                           !.use_index = us] :
        pat \in RegexPatterns, sv \in BOOLEAN, us \in BOOLEAN}

Configs == LiteralConfigs \cup RegexConfigs

TreeFileStates ==
    {Missing,
     File(1, 1024, Success(<<"a">>)),
     File(1, 2048, Success(<<"a">>)),
     File(1, 1024, Success(<<"a", "LF", "a">>)),
     File(1, 1024, Success(<<"eacute">>)),
     File(1, 1024, Failure("strategy failed"))}

InitRun(files, disks, runs, changes) ==
    /\ fs \in [Paths -> files]
    /\ index = {}
    /\ disk \in disks
    /\ sCfg = DefaultConfig
    /\ sPhase = "none"
    /\ sPending = {}
    /\ sSnapshot = {}
    /\ sResults = << >>
    /\ sStats = NewStats
    /\ sNewEntries = << >>
    /\ sLog = [p \in Paths |-> NotSeen]
    /\ sSaved = "none"
    /\ sLoad = "none"
    /\ sOut = NoOut
    /\ sPrev = NoPrev
    /\ sRuns = runs
    /\ sChanges = changes
    /\ sFiles = {}
    /\ NotSearchIdle

Init == InitRun(TreeFileStates, {Absent, JsonFile(OldDocument(1))}, 1, 0)

Next ==
    \/ \E cfg \in Configs : NewEngine(cfg)
    \/ StartSearch
    \/ \E path \in Paths : FileTask(path)
    \/ FinishSearch

Spec == Init /\ [][Next]_vars

(***************************************************************************)
(* SpecWarm: runs that follow one another over one tree, with the cache    *)
(* flags chosen anew for each run, and files changing between the runs.    *)
(***************************************************************************)
MaxRuns == 2
MaxChanges == 1

WarmConfigs ==
    {[DefaultConfig EXCEPT !.pattern = <<"a">>, !.save_index = sv,
                           !.use_index = us] :
        sv \in BOOLEAN, us \in BOOLEAN}

WarmFileStates ==
    {Missing,
     File(1, 1024, Success(<<"a">>)),
     File(2, 1024, Success(<<"b">>))}

InitWarm == InitRun(WarmFileStates, {Absent}, MaxRuns, MaxChanges)

NextWarm ==
    \/ \E cfg \in WarmConfigs : NewEngine(cfg)
    \/ StartSearch
    \/ \E path \in Paths : FileTask(path)
    \/ FinishSearch
    \/ ChangeFile(WarmFileStates)

SpecWarm == InitWarm /\ [][NextWarm]_vars

(***************************************************************************)
(* SpecCache: one run over every kind of cache file: none, one that cannot *)
(* be opened, one that is not JSON, one of this version and one of         *)
(* another.  While the tasks run, files of the tree may be deleted.        *)
(***************************************************************************)
\* A file of the tree is deleted while the run is under way
RemoveFile(path) ==
    /\ sPhase = "running"
    /\ sChanges > 0
    /\ fs[path].present
    /\ sChanges' = sChanges - 1
    /\ fs' = [fs EXCEPT ![path] = Missing]
    /\ UNCHANGED <<index, disk>>
    /\ UNCHANGED <<sCfg, sPhase, sPending, sSnapshot, sResults, sStats,
                   sNewEntries, sLog, sSaved, sLoad, sOut, sPrev, sRuns,
                   sFiles>>
    /\ UNCHANGED notSearchVars

CacheConfigs ==
    {[DefaultConfig EXCEPT !.pattern = <<"a">>, !.save_index = sv,
                           !.use_index = us] :
        sv \in BOOLEAN, us \in BOOLEAN}

CacheFileStates ==
    {Missing,
     File(1, 1024, Success(<<"a">>)),
     File(1, 1024, Failure("strategy failed"))}

CacheDisks ==
    {Absent, Locked, Garbage} \cup {JsonFile(OldDocument(v)) : v \in Versions}

InitCache == InitRun(CacheFileStates, CacheDisks, 1, MaxChanges)

NextCache ==
    \/ \E cfg \in CacheConfigs : NewEngine(cfg)
    \/ StartSearch
    \/ \E path \in Paths : FileTask(path)
    \/ \E path \in Paths : RemoveFile(path)
    \/ FinishSearch

SpecCache == InitCache /\ [][NextCache]_vars

(***************************************************************************)
(* SpecPool: one run with the parallel loop opened up.  Each worker of     *)
(* the pool takes one file at a time and goes through the closure step by  *)
(* step: the file's search (metadata, cache lookup, extraction), the push  *)
(* of the new cache entry under its mutex, the matching, the update of the *)
(* statistics under their mutex, the push of the result under its mutex.   *)
(* Some thread of the pool always runs, so a step that can be taken is     *)
(* taken in the end.                                                       *)
(***************************************************************************)
\* What search_file_with_index gives for the file of worker w.  The file
\* tree, the index of the run and the configuration do not change while
\* workers run, so the call is settled when it starts.
Outcome(w) == search_file_with_index(wFile[w], fs, sSnapshot, sCfg)

PoolFrame ==
    /\ UNCHANGED <<sCfg, sSnapshot, sSaved, sLoad, sOut, sPrev, sRuns,
                   sChanges, sFiles>>
    /\ UNCHANGED worldVars
    /\ UNCHANGED notPoolVars

\* search.rs:104: par_iter hands a file to a worker
Take(w, path) ==
    /\ sPhase = "running"
    /\ wPc[w] = "idle"
    /\ path \in sPending
    /\ sPending' = sPending \ {path}
    /\ wPc' = [wPc EXCEPT ![w] = "search"]
    /\ wFile' = [wFile EXCEPT ![w] = path]
    /\ UNCHANGED <<sPhase, sResults, sStats, sNewEntries, sLog, wOut,
                   mEntries, mStats, mResults>>
    /\ PoolFrame

\* search.rs:280-306: metadata, cache lookup and extraction of the file
SearchFile(w) ==
    /\ sPhase = "running"
    /\ wPc[w] = "search"
    /\ \E o \in {Outcome(w)} :
        /\ wOut' = [wOut EXCEPT ![w] = o]
        /\ sLog' = [sLog EXCEPT ![wFile[w]] =
                       [how |-> o.how, mtime |-> fs[wFile[w]].mtime,
                        size |-> fs[wFile[w]].size]]
        /\ wPc' = [wPc EXCEPT ![w] =
                      IF o.queued # << >> THEN "queue"
                      ELSE IF o.how \in {"nometa", "failed"}
                           THEN "stats"
                           ELSE "match"]
    /\ UNCHANGED <<sPhase, sPending, sResults, sStats, sNewEntries, wFile,
                   mEntries, mStats, mResults>>
    /\ PoolFrame

\* search.rs:317: new_entries.lock()
LockEntries(w) ==
    /\ sPhase = "running"
    /\ wPc[w] = "queue"
    /\ mEntries = 0
    /\ mEntries' = w
    /\ wPc' = [wPc EXCEPT ![w] = "push_entry"]
    /\ UNCHANGED <<sPhase, sPending, sResults, sStats, sNewEntries, sLog,
                   wFile, wOut, mStats, mResults>>
    /\ PoolFrame

\* A push that also puts the entry into the index the lookups read
PushEntryShared(w) ==
    /\ sPhase = "running"
    /\ wPc[w] = "push_entry"
    /\ sNewEntries' = sNewEntries \o wOut[w].queued
    /\ sSnapshot' = {UpsertAll(i, wOut[w].queued) : i \in sSnapshot}
    /\ mEntries' = 0
    /\ wPc' = [wPc EXCEPT ![w] = "match"]
    /\ UNCHANGED <<sPhase, sPending, sResults, sStats, sLog, wFile, wOut,
                   mStats, mResults>>
    /\ UNCHANGED <<sCfg, sSaved, sLoad, sOut, sPrev, sRuns, sChanges,
                   sFiles>>
    /\ UNCHANGED worldVars
    /\ UNCHANGED notPoolVars

\* search.rs:317: push(entry), and the guard is dropped
PushEntry(w) ==
    /\ sPhase = "running"
    /\ wPc[w] = "push_entry"
    /\ sNewEntries' = sNewEntries \o wOut[w].queued
    /\ mEntries' = 0
    /\ wPc' = [wPc EXCEPT ![w] = "match"]
    /\ UNCHANGED <<sPhase, sPending, sResults, sStats, sLog, wFile, wOut,
                   mStats, mResults>>
    /\ PoolFrame

\* search.rs:338: find_matches; a panic of the worker ends the run
MatchText(w) ==
    /\ sPhase = "running"
    /\ wPc[w] = "match"
    /\ IF wOut[w].panicked
       THEN sPhase' = "panicked" /\ UNCHANGED wPc
       ELSE sPhase' = sPhase /\ wPc' = [wPc EXCEPT ![w] = "stats"]
    /\ UNCHANGED <<sPending, sResults, sStats, sNewEntries, sLog, wFile,
                   wOut, mEntries, mStats, mResults>>
    /\ PoolFrame

\* search.rs:109: stats.lock()
LockStats(w) ==
    /\ sPhase = "running"
    /\ wPc[w] = "stats"
    /\ mStats = 0
    /\ mStats' = w
    /\ wPc' = [wPc EXCEPT ![w] = "update_stats"]
    /\ UNCHANGED <<sPhase, sPending, sResults, sStats, sNewEntries, sLog,
                   wFile, wOut, mEntries, mResults>>
    /\ PoolFrame

\* An update of the statistics whose guard is never dropped
WriteStatsHolding(w) ==
    /\ sPhase = "running"
    /\ wPc[w] = "update_stats"
    /\ sStats' = UpdateStats(sStats, wOut[w].result)
    /\ IF StoreResult(<< >>, wOut[w].result) # << >>
       THEN wPc' = [wPc EXCEPT ![w] = "results"] /\ UNCHANGED <<wFile, wOut>>
       ELSE /\ wPc' = [wPc EXCEPT ![w] = "idle"]
            /\ wFile' = [wFile EXCEPT ![w] = "none"]
            /\ wOut' = [wOut EXCEPT ![w] = NoOutcome]
    /\ UNCHANGED <<sPhase, sPending, sResults, sNewEntries, sLog, mEntries,
                   mStats, mResults>>
    /\ PoolFrame

\* search.rs:110-119: the update, and the guard is dropped; search.rs:122:
\* a result with matches goes on to the push, any other task is over
WriteStats(w) ==
    /\ sPhase = "running"
    /\ wPc[w] = "update_stats"
    /\ sStats' = UpdateStats(sStats, wOut[w].result)
    /\ mStats' = 0
    /\ IF StoreResult(<< >>, wOut[w].result) # << >>
       THEN wPc' = [wPc EXCEPT ![w] = "results"] /\ UNCHANGED <<wFile, wOut>>
       ELSE /\ wPc' = [wPc EXCEPT ![w] = "idle"]
            /\ wFile' = [wFile EXCEPT ![w] = "none"]
            /\ wOut' = [wOut EXCEPT ![w] = NoOutcome]
    /\ UNCHANGED <<sPhase, sPending, sResults, sNewEntries, sLog, mEntries,
                   mResults>>
    /\ PoolFrame

\* search.rs:124: results.lock()
LockResults(w) ==
    /\ sPhase = "running"
    /\ wPc[w] = "results"
    /\ mResults = 0
    /\ mResults' = w
    /\ wPc' = [wPc EXCEPT ![w] = "push_result"]
    /\ UNCHANGED <<sPhase, sPending, sResults, sStats, sNewEntries, sLog,
                   wFile, wOut, mEntries, mStats>>
    /\ PoolFrame

\* search.rs:125: push(res), and the guard is dropped
PushResult(w) ==
    /\ sPhase = "running"
    /\ wPc[w] = "push_result"
    /\ sResults' = StoreResult(sResults, wOut[w].result)
    /\ mResults' = 0
    /\ wPc' = [wPc EXCEPT ![w] = "idle"]
    /\ wFile' = [wFile EXCEPT ![w] = "none"]
    /\ wOut' = [wOut EXCEPT ![w] = NoOutcome]
    /\ UNCHANGED <<sPhase, sPending, sStats, sNewEntries, sLog, mEntries,
                   mStats>>
    /\ PoolFrame

\* The runs of the pool: with the cache read, written, or both.  A run that
\* reads a cache that cannot be loaded goes on with no index at all, as a
\* run without a cache does.
PoolConfigs ==
    {[DefaultConfig EXCEPT !.pattern = pat, !.limit = 1,
                           !.save_index = flags[1], !.use_index = flags[2]] :
        pat \in {<<"a">>, <<"eacute">>},
        flags \in {<<TRUE, FALSE>>, <<FALSE, TRUE>>, <<TRUE, TRUE>>}}

PoolFileStates ==
    {File(1, 1024, Success(<<"a">>)),
     File(1, 1024, Success(<<"eacute", "LF", "a", "a">>)),
     File(1, 1024, Failure("strategy failed"))}

InitPool ==
    InitRun(PoolFileStates, {Absent, JsonFile(OldDocument(1))}, 1, 0)

\* The steps that the pool and the mutexes schedule: handing out a file,
\* taking a free mutex, the short sections under a mutex, the step after
\* the matching, and the end of search once the loop is over
PoolSched ==
    \/ \E w \in Workers, path \in Paths : Take(w, path)
    \/ \E w \in Workers : LockEntries(w)
    \/ \E w \in Workers : PushEntry(w)
    \/ \E w \in Workers : MatchText(w)
    \/ \E w \in Workers : LockStats(w)
    \/ \E w \in Workers : WriteStats(w)
    \/ \E w \in Workers : LockResults(w)
    \/ \E w \in Workers : PushResult(w)
    \/ FinishSearch

NextPool ==
    \/ \E cfg \in PoolConfigs : NewEngine(cfg)
    \/ StartSearch
    \/ \E w \in Workers : SearchFile(w)
    \/ PoolSched

\* The pool runs a worker that can take a step, and a free mutex is given
\* to a worker that waits for it.  How long the reading and extraction of
\* one file takes is not the pool's to decide: no fairness is stated for
\* SearchFile.
SpecPool == InitPool /\ [][NextPool]_vars /\ WF_vars(PoolSched)

(***************************************************************************)
(* Claims about runs.                                                      *)
(***************************************************************************)
\* The pattern occurs somewhere in the text, under the run's case handling
Present(text, cfg) ==
    IF cfg.case_sensitive
    THEN Find(text, cfg.pattern) >= 0
    ELSE Find(ToLowercase(text), ToLowercase(cfg.pattern)) >= 0

\* The pattern occurs within one line of the text
PresentInLine(text, cfg) ==
    \E i \in DOMAIN Lines(text) : Present(Lines(text)[i], cfg)

\* The file is in the list search returned, with a match
Returned(path) ==
    \E i \in DOMAIN sOut.results :
        sOut.results[i].path = path /\ Len(sOut.results[i].matches) >= 1

\* The file is in the list the workers built, with a match
Stored(path) ==
    \E i \in DOMAIN sResults :
        sResults[i].path = path /\ Len(sResults[i].matches) >= 1

\* Every result search returned ranks at least as high as the file's
Outranked(path) ==
    /\ Len(sOut.results) = sCfg.limit
    /\ \A i \in DOMAIN sOut.results, k \in DOMAIN sResults :
          sResults[k].path = path =>
              cmp(sOut.results[i], sResults[k]) # "Greater"

C6_RankingOrder ==
    sOut.returned =>
        \A i, j \in DOMAIN sOut.results :
            i < j =>
                /\ Len(sOut.results[i].matches) >= Len(sOut.results[j].matches)
                /\ Len(sOut.results[i].matches) = Len(sOut.results[j].matches)
                      => sOut.results[i].confidence
                            >= sOut.results[j].confidence

\* Two results with one match each came back in the order of their
\* confidence, the reverse of the order the workers appended them in.
C6_Witness ==
    /\ sOut.returned
    /\ Len(sResults) = 2
    /\ Len(sOut.results) = 2
    /\ Len(sOut.results[1].matches) = Len(sOut.results[2].matches)
    /\ sOut.results[1].confidence > sOut.results[2].confidence
    /\ sResults[1] = sOut.results[2]
    /\ sResults[2] = sOut.results[1]

\* The task of this run read the fingerprint the task of the run before read
SameFingerprint(path) ==
    /\ sLog[path].how \in {"cached", "extracted", "failed"}
    /\ sLog[path].mtime = sPrev.log[path].mtime
    /\ sLog[path].size = sPrev.log[path].size

\* C4: in a run with cache-use enabled that follows a run with cache-save
\* enabled which saved the cache, every file the earlier run extracted and
\* whose modification time and size are what the earlier run read has its
\* text taken from the cache, the extractor not being invoked for it.
C4_WarmCache ==
    ( /\ sPrev.ran /\ sPrev.cfg.save_index /\ sPrev.saved = "ok"
      /\ sCfg.use_index )
    => \A p \in Paths :
          (sPrev.log[p].how = "extracted" /\ SameFingerprint(p))
              => sLog[p].how = "cached"

\* A second run has ended in which one file came from the cache while
\* another, changed between the runs, was extracted again.
C4_Witness ==
    /\ sPhase = "done"
    /\ sPrev.ran /\ sPrev.cfg.save_index /\ sPrev.saved = "ok"
    /\ sCfg.use_index
    /\ \E p, q \in Paths :
          /\ sPrev.log[p].how = "extracted" /\ sLog[p].how = "cached"
          /\ sPrev.log[q].how = "extracted" /\ sLog[q].how = "extracted"


(***************************************************************************)
(* Claims about the worker pool.                                           *)
(***************************************************************************)
\* The task of file p is over: the file was handed out and no worker is
\* at it
TaskOver(p) ==
    /\ p \notin sPending
    /\ \A w \in Workers : wFile[w] # p
    /\ sLog[p].how # "none"

\* search has returned only with every task over and every file counted once
ReturnedComplete ==
    sOut.returned =>
        /\ \A p \in sFiles : TaskOver(p)
        /\ \A w \in Workers : wPc[w] = "idle"
        /\ sOut.stats.files_scanned = Cardinality(sFiles)

\* Every single-file task terminates: no worker stays in the reading and
\* extraction of a file for ever, and no task panics
TasksTerminate ==
    /\ \A w \in Workers : []<>(wPc[w] # "search")
    /\ [](sPhase # "panicked")

Without(files, q) == [files EXCEPT ![q] = Missing]

\* The results the run holds for file p
StoredFor(p) == SelectSeq(sResults, LAMBDA r : r.path = p)

\* What the run holds for file p when file q is not there
StoredWithout(p, q) ==
    StoreResult(<< >>,
                search_file_with_index(p, Without(fs, q), sSnapshot,
                                       sCfg).result)

RECURSIVE StatsOver(_, _, _)
\* The statistics of the tasks of the files S of the tree files
StatsOver(S, files, stats) ==
    IF S = {} THEN stats
    ELSE LET p == CHOOSE x \in S : TRUE
         IN  StatsOver(S \ {p}, files,
                       UpdateStats(stats,
                                   search_file_with_index(p, files, sSnapshot,
                                                          sCfg).result))

\* File q is a file of the run whose extraction failed
Failed(q) == q \in sFiles /\ sLog[q].how = "failed"

\* At return, a failed file has no result, every other file has the result
\* it has without the failed file, and the statistics are those of the run
\* without the failed file but for one file scanned and one skipped
IsolatedAtReturn ==
    sOut.returned =>
        \A q \in Paths :
            Failed(q) =>
                /\ StoredFor(q) = << >>
                /\ \A p \in sFiles \ {q} : StoredFor(p) = StoredWithout(p, q)
                /\ sOut.stats =
                       [StatsOver(sFiles \ {q}, Without(fs, q), NewStats)
                           EXCEPT !.files_scanned = @ + 1,
                                  !.files_skipped = @ + 1]

\* The step in which the extraction of a file fails leaves the run running,
\* counts one skipped file and changes no result and no match count
FailureStep ==
    \A q \in Paths :
        (sLog[q].how # "failed" /\ sLog'[q].how = "failed") =>
            /\ sPhase' = "running"
            /\ sStats' = [sStats EXCEPT !.files_scanned = @ + 1,
                                        !.files_skipped = @ + 1]
            /\ sResults' = sResults

\* C12: a file whose extraction fails does not abort the run; it adds
\* exactly one to files_skipped, and the results and match counts of every
\* other file are those of a run in which the failed file was not collected.
C12_FailureIsolation == []IsolatedAtReturn /\ [][FailureStep]_vars

\* A run has returned with a failed file and a file that has matches
C12_Witness ==
    /\ sOut.returned
    /\ \E q \in Paths : Failed(q)
    /\ sOut.results # << >>
    /\ sOut.stats.files_skipped = 1

\* The Option<SearchResult> of the task of file p
TaskResult(p) == search_file_with_index(p, fs, sSnapshot, sCfg).result

\* The task of file p has run
Seen(p) == p \in sFiles /\ sLog[p].how # "none"

\* A result of the returned list, or of the list the tasks built
Genuine(res) == Len(res.matches) >= 1 /\ res.error = "none"

\* C13: a result with a failure reason has no match and confidence 0 and is
\* not in the returned list, where its file is counted as skipped only; a
\* file without a match gives no result; every result of the returned list
\* has a match and no failure reason.
C13_ResultShape ==
    /\ \A p \in Paths : Seen(p) =>
          \A res \in TaskResult(p) :
              /\ res.error # "none" =>
                    /\ res.matches = << >>
                    /\ res.confidence = 0
                    /\ StoredFor(p) = << >>
                    /\ \A i \in DOMAIN sOut.results : sOut.results[i].path # p
                    /\ sOut.returned => sOut.stats.files_skipped >= 1
              /\ res.error = "none" => res.matches # << >>
    /\ \A i \in DOMAIN sResults : Genuine(sResults[i])
    /\ \A i \in DOMAIN sOut.results : Genuine(sOut.results[i])

\* A run has returned a result, with one file failed and one file read
\* that has no match and no result
C13_Witness ==
    /\ sOut.returned
    /\ sOut.results # << >>
    /\ \E q \in Paths : Failed(q)
    /\ \E p \in Paths : Seen(p) /\ sLog[p].how = "extracted"
                        /\ TaskResult(p) = {}

(***************************************************************************)
(* Claims about the construction of the engine and the cache file.         *)
(***************************************************************************)
\* The engine was asked for a regex that does not compile
BadRegex == sPhase # "none" /\ sCfg.use_regex /\ ~RegexCompiles(sCfg.pattern)

\* C14: with regex mode on and a pattern that does not compile, the
\* construction of the engine fails before the cache file is loaded, before
\* the directory is walked and before any file is extracted, and no cache
\* file is written.
C14_InvalidPatternFatal ==
    BadRegex =>
        /\ sPhase = "failed"
        /\ sLoad = "none" /\ index = {} /\ sSnapshot = {}
        /\ sFiles = {} /\ sPending = {}
        /\ \A p \in Paths : sLog[p] = NotSeen
        /\ sNewEntries = << >> /\ sSaved = "none"
        /\ ~sOut.returned

\* The construction failed on "(a" in a tree with a file to read, for a run
\* that was to read and write the cache, with a cache file on the disk
C14_Witness ==
    /\ sPhase = "failed"
    /\ sCfg.save_index /\ sCfg.use_index
    /\ disk # Absent
    /\ \E p \in Paths : fs[p].present

\* The load of the cache file failed, in a run that is to save the cache
LoadFailedSave == sPhase # "none" /\ sLoad = "failed" /\ sCfg.save_index

\* The load of the cache file failed, in a run that only reads the cache
LoadFailedUse == sPhase # "none" /\ sLoad = "failed" /\ ~sCfg.save_index

\* The run goes on and, at its end, has returned
RunsOn ==
    /\ sPhase \in {"ready", "running", "done"}
    /\ sPhase = "done" => sOut.returned

\* The run works with a new cache without entries: no file is taken from
\* the cache and every file that was read is queued
NewEmptyCache ==
    /\ sPhase = "ready" => index # {} /\ DOMAIN TheIndex.entries = {}
    /\ sPhase \in {"running", "done"} =>
          /\ sSnapshot # {}
          /\ \A i \in sSnapshot : DOMAIN i.entries = {}
    /\ \A p \in Paths :
          /\ sLog[p].how # "cached"
          /\ sLog[p].how = "extracted" =>
                \E k \in DOMAIN sNewEntries : sNewEntries[k].path = p

\* The end of the run has written the cache of the run to the cache file
Persisted ==
    /\ sSaved = "ok"
    /\ load(disk).tag = "Ok"
    /\ \A i \in load(disk).value : i.entries = TheIndex.entries

\* The run works without a cache and leaves the cache file alone
CachingDisabled ==
    /\ index = {} /\ sSnapshot = {}
    /\ \A p \in Paths : sLog[p].how # "cached"
    /\ sNewEntries = << >>
    /\ sSaved = "none"
    /\ load(disk).tag # "Ok"

\* C15 as it is stated: when the load of the cache file fails (not found,
\* I/O, parse, version), a run that is to save the cache goes on with a new
\* empty cache and writes it at its end, if the file can be created at all;
\* a run that only reads the cache goes on without one and writes none;
\* both runs return.
C15_LoadFailureRecoverable ==
    /\ LoadFailedSave =>
          /\ RunsOn
          /\ NewEmptyCache
          /\ (sPhase = "done" /\ disk.kind # "locked") => Persisted
    /\ LoadFailedUse => RunsOn /\ CachingDisabled

\* C15 for runs whose cache holds paths of valid UTF-8 only
C15_Utf8LoadFailureRecoverable ==
    /\ LoadFailedSave =>
          /\ RunsOn
          /\ NewEmptyCache
          /\ (sPhase = "done" /\ disk.kind # "locked"
                /\ \A p \in DOMAIN TheIndex.entries : IsUtf8(p)) => Persisted
    /\ LoadFailedUse => RunsOn /\ CachingDisabled

\* A run whose load failed on a cache file of another version has written
\* a new cache with an entry
C15_Utf8Witness ==
    /\ LoadFailedSave /\ sPhase = "done" /\ Persisted
    /\ DOMAIN TheIndex.entries # {}
    /\ sOut.results # << >>

(***************************************************************************)
(* Claims about the limit.                                                 *)
(***************************************************************************)
\* Result x ranks strictly above result y: more matches, or as many and a
\* higher confidence
RanksAbove(x, y) ==
    \/ Len(x.matches) > Len(y.matches)
    \/ Len(x.matches) = Len(y.matches) /\ x.confidence > y.confidence

\* The results the tasks built that search did not return
LeftOut ==
    {k \in DOMAIN sResults :
        \A i \in DOMAIN sOut.results : sOut.results[i].path # sResults[k].path}

\* C16: search returns at most `limit` results, all of them results of
\* files with matches, and no result left out ranks strictly above a
\* returned one.
C16_LimitPrefix ==
    sOut.returned =>
        /\ Len(sOut.results) <= sCfg.limit
        /\ Len(sOut.results) = Min(sCfg.limit, Len(sResults))
        /\ \A i \in DOMAIN sOut.results :
              \E k \in DOMAIN sResults : sOut.results[i] = sResults[k]
        /\ \A k \in LeftOut :
              \A i \in DOMAIN sOut.results :
                  ~RanksAbove(sResults[k], sOut.results[i])

\* Of three files with matches one was left out, and it ranks strictly
\* below every result that was returned
C16_Witness ==
    /\ sOut.returned
    /\ Len(sResults) = 3
    /\ Len(sOut.results) = sCfg.limit
    /\ \E k \in LeftOut :
          \A i \in DOMAIN sOut.results :
              RanksAbove(sOut.results[i], sResults[k])

(***************************************************************************)
(* Claims about the cache during and at the end of a run.                  *)
(***************************************************************************)
\* While the workers run, the index the lookups read is the index of the
\* run's start; a file taken from the cache has its entry there, and no
\* entry of the buffer is in it
SnapshotApart ==
    sPhase = "running" =>
        /\ sSnapshot = index
        /\ \A p \in Paths :
              sLog[p].how = "cached" =>
                  /\ \A i \in sSnapshot : p \in DOMAIN i.entries
                  /\ \A k \in DOMAIN sNewEntries : sNewEntries[k].path # p
        /\ \A k \in DOMAIN sNewEntries :
              \A i \in sSnapshot :
                  sNewEntries[k].path \in DOMAIN i.entries =>
                      i.entries[sNewEntries[k].path] # sNewEntries[k]

\* A step of a run under way leaves the index of the lookups as it is,
\* only appends to the buffer, and changes the index of the engine only
\* once every worker is done
SnapshotStep ==
    sPhase = "running" =>
        /\ sSnapshot' = sSnapshot
        /\ index' # index => Joined
        /\ sPhase' = "running" =>
              \E k \in 0..1 :
                  /\ Len(sNewEntries') = Len(sNewEntries) + k
                  /\ SubSeq(sNewEntries', 1, Len(sNewEntries)) = sNewEntries

\* C17: while a worker of a run is at work, the entries the lookups read
\* are those of the run's start; what the run extracts goes to a buffer of
\* its own and into the index only when every worker is done, so that no
\* lookup finds an entry made in the same run.
C17_ReadOnlySnapshot == []SnapshotApart /\ [][SnapshotStep]_vars

\* A worker is at work while one file was taken from the cache and the
\* entry of another is in the buffer
C17_Witness ==
    /\ sPhase = "running" /\ ~Joined
    /\ sNewEntries # << >>
    /\ \E p \in Paths : sLog[p].how = "cached"

\* A run that was to save the cache has ended, and the cache file is one
\* that can be created
SaveRunDone == sPhase = "done" /\ sCfg.save_index /\ disk.kind # "locked"

\* The cache file holds a document without an entry of a path that does not
\* exist, and with the entry of every file the run extracted that exists
PersistedDocument ==
    /\ load(disk).tag = "Ok"
    /\ \A i \in load(disk).value :
          /\ \A p \in DOMAIN i.entries : exists(fs, p)
          /\ \A k \in DOMAIN sNewEntries :
                exists(fs, sNewEntries[k].path) =>
                    /\ sNewEntries[k].path \in DOMAIN i.entries
                    /\ i.entries[sNewEntries[k].path] = sNewEntries[k]

C18_Utf8EndOfRunProtocol ==
    (SaveRunDone /\ \A p \in DOMAIN TheIndex.entries : IsUtf8(p)) =>
        PersistedDocument

\* A run has saved a cache with the entry of a file it extracted, without
\* the entry of a file that was deleted after its extraction
C18_Utf8Witness ==
    /\ SaveRunDone /\ PersistedDocument
    /\ \E k \in DOMAIN sNewEntries : exists(fs, sNewEntries[k].path)
    /\ \E k \in DOMAIN sNewEntries : ~exists(fs, sNewEntries[k].path)

(***************************************************************************)
(* Claims about the mutexes and the statistics.                            *)
(***************************************************************************)
\* The mutexes worker w holds
Holds(w) ==
    {m \in {"entries", "stats", "results"} :
        \/ m = "entries" /\ mEntries = w
        \/ m = "stats" /\ mStats = w
        \/ m = "results" /\ mResults = w}

\* A worker holds a mutex exactly in the section the mutex guards
OneMutexAtMost ==
    \A w \in Workers :
        /\ Cardinality(Holds(w)) <= 1
        /\ wPc[w] \in {"idle", "search", "queue", "match", "stats", "results"}
              => Holds(w) = {}
        /\ wPc[w] = "push_entry" => Holds(w) = {"entries"}
        /\ wPc[w] = "update_stats" => Holds(w) = {"stats"}
        /\ wPc[w] = "push_result" => Holds(w) = {"results"}

\* A mutex is free or held by one worker, and the worker that holds one
\* can leave its section
Guarded ==
    /\ mEntries \in Workers \cup {0}
    /\ mStats \in Workers \cup {0}
    /\ mResults \in Workers \cup {0}
    /\ sPhase = "running" =>
          \A w \in Workers :
              /\ wPc[w] = "push_entry" => ENABLED PushEntry(w)
              /\ wPc[w] = "update_stats" => ENABLED WriteStats(w)
              /\ wPc[w] = "push_result" => ENABLED PushResult(w)

\* A run under way can take a step: a worker reads a file, or the pool or
\* a mutex lets a worker go on, or search ends
NoDeadlock ==
    sPhase = "running" =>
        \/ \E w \in Workers : wPc[w] = "search"
        \/ ENABLED PoolSched

\* The number of matches of the task of file p
MatchCount(p) ==
    IF TaskResult(p) = {} THEN 0
    ELSE Len((CHOOSE res \in TaskResult(p) : TRUE).matches)

RECURSIVE SumOfMatches(_)
SumOfMatches(S) ==
    IF S = {} THEN 0
    ELSE LET p == CHOOSE x \in S : TRUE
         IN  MatchCount(p) + SumOfMatches(S \ {p})

\* C19: the results, the statistics and the buffer of new entries have a
\* mutex each; a worker holds at most one of them, and none while it reads
\* the metadata of a file, extracts its text or matches; no state of a run
\* under way is a deadlock.
C19_LockDiscipline == OneMutexAtMost /\ Guarded /\ NoDeadlock

\* One worker updates the statistics under their mutex while the other
\* waits for that mutex
C19_Witness ==
    \E v, w \in Workers :
        /\ v # w
        /\ mStats = v /\ wPc[v] = "update_stats"
        /\ wPc[w] = "stats"

\* C20: at return, under every interleaving, files_matched is the number
\* of collected files with a match, whatever the limit cut off;
\* total_matches is the sum of their matches; files_skipped is the number
\* of files whose extraction failed; and files_matched + files_skipped is
\* at most files_scanned.
C20_StatsConsistency ==
    sOut.returned =>
        /\ sOut.stats.files_matched
              = Cardinality({p \in sFiles : MatchCount(p) >= 1})
        /\ sOut.stats.files_matched = Len(sResults)
        /\ sOut.stats.total_matches = SumOfMatches(sFiles)
        /\ sOut.stats.files_skipped
              = Cardinality({p \in sFiles : sLog[p].how = "failed"})
        /\ sOut.stats.files_matched + sOut.stats.files_skipped
              <= sOut.stats.files_scanned

\* Two files with three matches in all and one failed file, and a returned
\* list cut to one result
C20_Witness ==
    /\ sOut.returned
    /\ sOut.stats.files_matched = 2
    /\ sOut.stats.total_matches = 3
    /\ sOut.stats.files_skipped = 1
    /\ Len(sOut.results) = 1

\* The entries of the new-entry buffer that are for file p
QueuedFor(p) == {i \in DOMAIN sNewEntries : sNewEntries[i].path = p}

\* The lookup for file p is a miss: there is no index, or no entry for p,
\* or a stale one
LookupMiss(p) ==
    \/ sSnapshot = {}
    \/ get_valid_entry(CHOOSE i \in sSnapshot : TRUE, fs, p) = {}

\* The extraction of file p succeeds
ExtractionOk(p) ==
    extract_text(MetaOk(fs[p].size), from_extension(ExtensionOf(p)),
                 sCfg.ocr_enabled, fs[p].content).result.success

\* C28: while a run is under way, the buffer of new entries holds an entry
\* for a file whose task has run if and only if cache-save is requested, the
\* lookup for the file was a miss and its extraction succeeded, and no
\* entry for a file whose task has not run; it holds at most one entry per
\* path; and an entry carries the modification time and the size that the
\* task read for the file.
C28_QueueingRule ==
    /\ \A p \in Paths : Cardinality(QueuedFor(p)) <= 1
    /\ \A i \in DOMAIN sNewEntries :
          LET e == sNewEntries[i]
          IN  /\ e.path \in sFiles
              /\ e.modified_timestamp = sLog[e.path].mtime
              /\ e.file_size = sLog[e.path].size
              /\ sLog[e.path].how = "extracted"
    /\ sPhase \in {"running", "panicked"} =>
          \A p \in sFiles :
              QueuedFor(p) # {} <=>
                  /\ p \notin sPending
                  /\ sCfg.save_index
                  /\ LookupMiss(p)
                  /\ ExtractionOk(p)

\* A run that saves its cache has had a hit, a failed extraction and a miss
\* with a successful extraction, and its buffer holds the one entry of the
\* last of them
C28_Witness ==
    /\ sPhase = "running"
    /\ sCfg.save_index
    /\ Len(sNewEntries) = 1
    /\ sNewEntries[1].modified_timestamp > 0
    /\ \E p, q \in sFiles \ sPending :
          /\ ~LookupMiss(p)
          /\ LookupMiss(q) /\ ~ExtractionOk(q)
          /\ sNewEntries[1].path \notin {p, q}

\* A run that is to use the cache and not to save it
UseOnly ==
    /\ sPhase \in {"ready", "running", "panicked", "done"}
    /\ sCfg.use_index /\ ~sCfg.save_index

\* In such a run the index of the engine is what the load of the cache
\* file gave, no entry is queued and nothing is saved
UseOnlyQuiet ==
    UseOnly =>
        /\ \E now \in RunClock : index = new(sCfg, disk, now)
        /\ sNewEntries = << >>
        /\ sSaved = "none"

\* A step of such a run leaves the index and the cache file as they are
UseOnlyStep == UseOnly => (index' = index /\ disk' = disk)

\* C29: in a run with cache-use and without cache-save, no entry is added
\* to the loaded index, replaced in it or pruned from it, and the cache file
\* is not written, whatever files are misses or have disappeared.
C29_UseOnlyFrame == []UseOnlyQuiet /\ [][UseOnlyStep]_vars

\* A use-only run has ended with its cache loaded; one file was a miss and
\* was extracted, and a file with an entry in the cache is gone from disk
C29_Witness ==
    /\ UseOnly /\ sPhase = "done"
    /\ sLoad = "ok"
    /\ \E p \in Paths : sLog[p].how = "extracted"
    /\ \E i \in index : \E p \in DOMAIN i.entries : ~fs[p].present

\* The results and statistics that the tasks of the files leave when they
\* run one after the other in the given order
RECURSIVE CollectInOrder(_, _)
CollectInOrder(order, acc) ==
    IF order = << >> THEN acc
    ELSE CollectInOrder(
             Tail(order),
             [results |-> StoreResult(acc.results, TaskResult(Head(order))),
              stats |-> UpdateStats(acc.stats, TaskResult(Head(order)))])

\* What search returns when the tasks run one after the other in that order
ReturnedInOrder(order) ==
    LET all == CollectInOrder(order, [results |-> << >>, stats |-> NewStats])
    IN  [results |-> truncate(sort(all.results), sCfg.limit),
         stats |-> all.stats]

ResultSet(results) == {results[i] : i \in DOMAIN results}

\* C27 as it is stated: whatever the interleaving of the workers, search
\* returns the statistics and the set of results that it returns when the
\* files are taken one after the other, in any order, including when
\* results with equal match count and confidence compete for the last
\* place under the limit.
C27_ScheduleIndependent ==
    sOut.returned =>
        \A order \in Orders(sFiles) :
            /\ sOut.stats = ReturnedInOrder(order).stats
            /\ ResultSet(sOut.results)
                  = ResultSet(ReturnedInOrder(order).results)

\* What the code gives: the statistics do not depend on the interleaving,
\* and neither does the multiset of (match count, confidence) of the
\* returned results; the results themselves are those of the files whose
\* tasks pushed first among equals.
C27_StatsIndependent ==
    sOut.returned =>
        \A order \in Orders(sFiles) :
            /\ sOut.stats = ReturnedInOrder(order).stats
            /\ Len(sOut.results) = Len(ReturnedInOrder(order).results)
            /\ \A i \in DOMAIN sOut.results :
                  LET r == sOut.results[i]
                      q == ReturnedInOrder(order).results[i]
                  IN  /\ Len(r.matches) = Len(q.matches)
                      /\ r.confidence = q.confidence

\* Two files with the same match count and confidence and room for one
\* under the limit: the result of b.txt is returned and that of a.txt is
\* cut off
C27_TieWitness ==
    /\ sOut.returned
    /\ Len(sResults) >= 2
    /\ Len(sOut.results) = 1
    /\ sOut.results[1].path = "b.txt"
    /\ \E i \in DOMAIN sResults :
          /\ sResults[i].path = "a.txt"
          /\ cmp(sResults[i], sOut.results[1]) = "Equal"

(***************************************************************************)
(* extract_image_ocr (extractors.rs:456-505), in a build with the `ocr`    *)
(* feature.  TESSERACT is a thread_local static: every thread that names   *)
(* it reaches a cell of its own, which holds None or the LepTess handle    *)
(* the thread made.  A build without the feature has the stub              *)
(* (extractors.rs:508-513), which holds and makes no handle.               *)
(***************************************************************************)
\* One static cell for all the threads
TessCellShared(w) == 1

\* extractors.rs:464-468: the cell TESSERACT.with hands to thread w
TessCell(w) == w

\* What the OCR engine makes of an image: set_image takes it or not,
\* get_utf8_text gives its text or fails
Image(loads, reads, text) == [loads |-> loads, reads |-> reads, text |-> text]

\* extractors.rs:459: extract_image_ocr.  cell is the thread's cell on
\* entry, init_ok whether LepTess::new would succeed now, fresh the handle
\* it would return.
extract_image_ocr(cell, image, init_ok, fresh) ==
    IF cell = {} /\ ~init_ok
    THEN [cell |-> {}, tried |-> TRUE, constructed |-> {}, used |-> {},
          result |-> Failure("Failed to initialize Tesseract")]
    ELSE LET lt == IF cell = {} THEN fresh ELSE CHOOSE h \in cell : TRUE
         IN  [cell |-> {lt}, tried |-> cell = {},
              constructed |-> IF cell = {} THEN {lt} ELSE {},
              used |-> {lt},
              result |->
                  IF ~image.loads
                  THEN Failure("Failed to load image for OCR")
                  ELSE IF ~image.reads THEN Failure("OCR extraction failed")
                  ELSE Success(CleanLines(image.text))]

(***************************************************************************)
(* SpecOcr: the threads of the pool call extract_image_ocr, in any order,  *)
(* on images of every kind; each construction of a handle succeeds or      *)
(* fails.                                                                  *)
(***************************************************************************)
MaxCalls == 4

OcrImages ==
    {Image(FALSE, FALSE, << >>), Image(TRUE, FALSE, << >>),
     Image(TRUE, TRUE, <<" ", "a", "LF">>), Image(TRUE, TRUE, <<" ">>)}

InitOcr ==
    /\ oTess = [w \in Workers |-> {}]
    /\ oLog = << >>
    /\ oNext = 0
    /\ NotOcrIdle

\* One call of extract_image_ocr on thread w
OcrCall(w) ==
    /\ Len(oLog) < MaxCalls
    /\ \E image \in OcrImages, init_ok \in BOOLEAN :
          LET r == extract_image_ocr(oTess[TessCell(w)], image, init_ok,
                                     oNext + 1)
          IN  /\ oTess' = [oTess EXCEPT ![TessCell(w)] = r.cell]
              /\ oNext' = IF r.constructed # {} THEN oNext + 1 ELSE oNext
              /\ oLog' = Append(oLog,
                            [thread |-> w, tried |-> r.tried,
                             constructed |-> r.constructed, used |-> r.used,
                             result |-> r.result, after |-> r.cell])
    /\ UNCHANGED notOcrVars

NextOcr == \E w \in Workers : OcrCall(w)

SpecOcr == InitOcr /\ [][NextOcr]_vars

\* The calls thread w made before call i
EarlierCalls(i) == {j \in 1..(i - 1) : oLog[j].thread = oLog[i].thread}

\* No handle is used by two threads.
HandleOfOneThread ==
    \A i, j \in DOMAIN oLog :
        oLog[i].used \cap oLog[j].used # {} => oLog[i].thread = oLog[j].thread

\* Once a construction has succeeded on a thread, every later call on that
\* thread uses that handle and constructs none: at most one successful
\* construction per thread.
HandleReused ==
    \A i, j \in DOMAIN oLog :
        (i < j /\ oLog[i].thread = oLog[j].thread /\ oLog[i].after # {}) =>
            /\ oLog[j].used = oLog[i].after
            /\ ~oLog[j].tried
            /\ oLog[j].constructed = {}
            /\ oLog[j].after = oLog[i].after

\* A call whose construction fails returns a failure, uses no handle and
\* leaves the thread without one.
FailedConstruction ==
    \A i \in DOMAIN oLog :
        (oLog[i].tried /\ oLog[i].constructed = {}) =>
            /\ ~oLog[i].result.success
            /\ oLog[i].used = {}
            /\ oLog[i].after = {}

\* C21 as it is stated: no handle is used by two threads; a thread
\* constructs its handle only on its first OCR call; after a successful
\* construction every later call on the thread reuses that handle; a failed
\* construction gives a failure and leaves the thread without a handle.
C21_FirstCallOnly ==
    /\ HandleOfOneThread
    /\ \A i \in DOMAIN oLog : oLog[i].constructed # {} => EarlierCalls(i) = {}
    /\ HandleReused
    /\ FailedConstruction

\* C21 amended: a thread constructs a handle only on a call it enters
\* without one, which is its first OCR call or a call all of whose
\* predecessors on the thread failed to construct; the rest as stated.
C21_LazyHandle ==
    /\ HandleOfOneThread
    /\ \A i \in DOMAIN oLog :
          oLog[i].tried <=>
              \A j \in EarlierCalls(i) :
                  oLog[j].tried /\ oLog[j].constructed = {}
    /\ \A i \in DOMAIN oLog : oLog[i].constructed # {} => oLog[i].tried
    /\ HandleReused
    /\ FailedConstruction

\* Thread 1 failed to construct, then constructed, then reused its handle,
\* and thread 2 made a handle of its own.
C21_Witness ==
    /\ Len(oLog) = 4
    /\ oLog[1].thread = 1 /\ oLog[1].tried /\ oLog[1].constructed = {}
    /\ oLog[2].thread = 1 /\ oLog[2].constructed = {1}
    /\ oLog[3].thread = 2 /\ oLog[3].constructed = {2}
    /\ oLog[4].thread = 1 /\ oLog[4].used = {1} /\ ~oLog[4].tried
    /\ oLog[4].result = Success(<<"a">>)
    /\ oTess = <<{1}, {2}>>


(***************************************************************************)
(* extract_pdf (extractors.rs:115-174) and extract_pdf_images_ocr          *)
(* (extractors.rs:179-246).  A PDF file is taken by what the libraries     *)
(* make of it: the text layer pdf_extract returns (or its error), whether  *)
(* lopdf can load the document, and the objects of the document.  An       *)
(* object is an Image XObject or not, has a width and a height, can be     *)
(* written to a temporary image file or not, and gives some result when    *)
(* that file is handed to extract_image_ocr.                               *)
(***************************************************************************)
TextOk(text) == [ok |-> TRUE, text |-> text]
TextErr == [ok |-> FALSE, text |-> << >>]

PdfObject(is_image, width, height, temp, ocr) ==
    [is_image |-> is_image, width |-> width, height |-> height,
     temp |-> temp, ocr |-> ocr]

PdfDoc(loads, objects) == [loads |-> loads, objects |-> objects]

RECURSIVE JoinBlank(_)
\* extractors.rs:244: all_text.join("\n\n")
JoinBlank(ts) ==
    IF ts = << >> THEN << >>
    ELSE IF Len(ts) = 1 THEN ts[1]
    ELSE ts[1] \o <<"LF", "LF">> \o JoinBlank(Tail(ts))

\* extractors.rs:230-234: the result of one image's OCR is kept if it has
\* text, and image_count is raised for those images only.  `tried` counts
\* the calls of extract_image_ocr; the code keeps no such number.
CountImage(acc, ocr) ==
    IF ocr.success /\ Trim(ocr.text) # << >>
    THEN [acc EXCEPT !.all_text = Append(@, ocr.text),
                     !.image_count = @ + 1, !.tried = @ + 1]
    ELSE [acc EXCEPT !.tried = @ + 1]

RECURSIVE ScanImages(_, _)
\* extractors.rs:193-236: the loop over the objects of the document
ScanImages(objects, acc) ==
    IF objects = << >> THEN acc
    ELSE LET o == Head(objects)
         IN  IF ~o.is_image \/ o.width < 100 \/ o.height < 100 \/ ~o.temp
             THEN ScanImages(Tail(objects), acc)
             ELSE ScanImages(Tail(objects), CountImage(acc, o.ocr))

\* extractors.rs:179: extract_pdf_images_ocr.  named is the number the
\* failure reason states, if it states one.
extract_pdf_images_ocr(doc) ==
    IF ~doc.loads
    THEN [result |-> Failure("Failed to parse PDF for OCR"), named |-> {},
          tried |-> 0, texts |-> << >>]
    ELSE LET acc == ScanImages(doc.objects,
                               [all_text |-> << >>, image_count |-> 0,
                                tried |-> 0])
         IN  IF acc.all_text = << >>
             THEN [result |-> Failure("No readable text found in PDF image(s)"),
                   named |-> {acc.image_count}, tried |-> acc.tried,
                   texts |-> << >>]
             ELSE [result |-> Success(JoinBlank(acc.all_text)), named |-> {},
                   tried |-> acc.tried, texts |-> acc.all_text]

\* extractors.rs:132: cleaned.len() > 100, a length in bytes
has_substantial_text(cleaned) == ByteLen(cleaned) > 100

\* An order that puts the OCR text in front of the text layer
CombineOcrFirst(cleaned, ocr_text) == ocr_text \o <<"LF">> \o cleaned

\* extractors.rs:150: format!("{}\n{}", cleaned, ocr_result.text)
Combine(cleaned, ocr_text) == cleaned \o <<"LF">> \o ocr_text

\* The result of extract_pdf, whether it called extract_pdf_images_ocr and
\* what that returned
PdfOutcome(result, invoked, ocr) ==
    [result |-> result, invoked |-> invoked, ocr |-> ocr]

\* The OCR fallback was not called
NoFallback ==
    [result |-> Failure("not run"), named |-> {}, tried |-> 0,
     texts |-> << >>]

\* extractors.rs:115: extract_pdf.  feature: the build has the `ocr` feature.
extract_pdf(pdf, ocr_enabled, feature) ==
    LET cleaned == IF pdf.layer.ok THEN CleanLines(pdf.layer.text) ELSE << >>
    IN  IF has_substantial_text(cleaned) \/ ~ocr_enabled
        THEN IF cleaned = << >>
             THEN PdfOutcome(Failure("Failed to extract PDF text"), FALSE,
                             NoFallback)
             ELSE PdfOutcome(Success(cleaned), FALSE, NoFallback)
        ELSE IF feature
        THEN LET ocr_result == extract_pdf_images_ocr(pdf.doc)
             IN  IF ocr_result.result.success
                    /\ ocr_result.result.text # << >>
                 THEN IF cleaned = << >>
                      THEN PdfOutcome(ocr_result.result, TRUE, ocr_result)
                      ELSE PdfOutcome(
                               Success(Combine(cleaned,
                                               ocr_result.result.text)),
                               TRUE, ocr_result)
                 ELSE IF cleaned # << >>
                 THEN PdfOutcome(Success(cleaned), TRUE, ocr_result)
                 ELSE PdfOutcome(
                          Failure("PDF appears to be scanned but OCR could not extract text"),
                          TRUE, ocr_result)
        ELSE IF cleaned = << >>
        THEN PdfOutcome(Failure("PDF appears to be scanned. Rebuild with --features ocr"),
                        FALSE, NoFallback)
        ELSE PdfOutcome(Success(cleaned), FALSE, NoFallback)

(***************************************************************************)
(* SpecPdf: extract_pdf on PDF files whose text layer is missing, blank,   *)
(* or of a length around the threshold, in characters of one byte and of   *)
(* two, and whose document holds up to MaxImages objects of every kind.    *)
(***************************************************************************)
MaxImages == 2

\* n times the character c
Rep(c, n) == [i \in 1..n |-> c]

PdfTexts ==
    {Rep("a", n) : n \in {0, 1, 99, 100, 101}}
        \cup {Rep("eacute", n) : n \in {50, 51, 99}}
        \cup {<<" ", "LF">>, Rep("a", 98) \o <<" ", "LF", " ", "LF", "a">>}

PdfLayers == {TextErr} \cup {TextOk(t) : t \in PdfTexts}

\* What extract_image_ocr can return for an image
OcrResults ==
    {Success(<<"a">>), Success(<<"b">>), Success(<< >>),
     Failure("OCR extraction failed")}

PdfObjects ==
    {PdfObject(FALSE, 200, 200, TRUE, Failure("not run")),
     PdfObject(TRUE, 99, 200, TRUE, Failure("not run")),
     PdfObject(TRUE, 100, 100, FALSE, Failure("not run"))}
        \cup {PdfObject(TRUE, 100, 100, TRUE, r) : r \in OcrResults}

PdfDocs ==
    {PdfDoc(FALSE, << >>)}
        \cup {PdfDoc(TRUE, os) : os \in SeqsUpTo(PdfObjects, MaxImages)}

InitPdf ==
    /\ pIn \in [layer : PdfLayers, doc : PdfDocs, ocr_enabled : BOOLEAN,
                feature : BOOLEAN]
    /\ pOut = PdfOutcome(Failure("not run"), FALSE, NoFallback)
    /\ pPhase = "ready"
    /\ NotPdfIdle

ExtractPdf ==
    /\ pPhase = "ready"
    /\ pOut' = extract_pdf(pIn, pIn.ocr_enabled, pIn.feature)
    /\ pPhase' = "done"
    /\ UNCHANGED pIn
    /\ UNCHANGED notPdfVars

NextPdf == ExtractPdf

SpecPdf == InitPdf /\ [][NextPdf]_vars

\* The cleaned text layer of the PDF
Cleaned == IF pIn.layer.ok THEN CleanLines(pIn.layer.text) ELSE << >>

\* C22 as it is stated: the OCR fallback is invoked if and only if OCR is
\* enabled and the cleaned text layer is shorter than 100 characters; with
\* 100 characters or more, or with OCR disabled, it is never invoked.
C22_ScannedHeuristic ==
    (pPhase = "done" /\ pIn.feature) =>
        (pOut.invoked <=> (pIn.ocr_enabled /\ Len(Cleaned) < 100))

\* What the code does: the fallback is invoked if and only if OCR is
\* enabled, the build has the OCR feature and the cleaned text layer is at
\* most 100 bytes long.
C22_ByteThreshold ==
    pPhase = "done" =>
        (pOut.invoked <=>
            (pIn.ocr_enabled /\ pIn.feature /\ ByteLen(Cleaned) <= 100))

\* A text layer of exactly 100 one-byte characters went to the fallback.
C22_ByteWitness ==
    /\ pPhase = "done"
    /\ pOut.invoked
    /\ Len(Cleaned) = 100 /\ ByteLen(Cleaned) = 100


\* The OCR fallback ran and came back with text
OcrGaveText ==
    /\ pOut.invoked
    /\ pOut.ocr.result.success
    /\ pOut.ocr.result.text # << >>

\* C23: extract_pdf fails if and only if the cleaned text layer is empty and
\* the OCR fallback gave no text or was not run; a successful extraction
\* returns text that is not empty; when the text layer and the fallback both
\* give text the result is the text layer, a line break and the OCR text;
\* when the fallback gives nothing and the text layer is not empty the text
\* layer alone is returned, as a success.
C23_PdfOutcome ==
    pPhase = "done" =>
        /\ ~pOut.result.success <=> (Cleaned = << >> /\ ~OcrGaveText)
        /\ pOut.result.success => pOut.result.text # << >>
        /\ (OcrGaveText /\ Cleaned # << >>) =>
              pOut.result
                  = Success(Cleaned \o <<"LF">> \o pOut.ocr.result.text)
        /\ (OcrGaveText /\ Cleaned = << >>) =>
              pOut.result = Success(pOut.ocr.result.text)
        /\ (~OcrGaveText /\ Cleaned # << >>) =>
              pOut.result = Success(Cleaned)

\* A sparse text layer and two readable images: the text layer comes first,
\* then the text of the images.
C23_Witness ==
    /\ pPhase = "done"
    /\ pIn.layer = TextOk(<<"a">>)
    /\ pOut.invoked
    /\ pOut.ocr.result.text = <<"a", "LF", "LF", "b">>
    /\ pOut.result = Success(<<"a", "LF", "a", "LF", "LF", "b">>)


\* The images of the document that are handed to the OCR engine: Image
\* XObjects of 100 by 100 pixels or more that can be written to a file
Candidates(doc) ==
    SelectSeq(doc.objects,
              LAMBDA o : o.is_image /\ o.width >= 100 /\ o.height >= 100
                         /\ o.temp)

\* Those of them whose OCR gave text
Readable(doc) ==
    SelectSeq(Candidates(doc),
              LAMBDA o : o.ocr.success /\ Trim(o.ocr.text) # << >>)

\* The text blocks recovered from the document, in object order
Recovered(doc) == [i \in 1..Len(Readable(doc)) |-> Readable(doc)[i].ocr.text]

\* C24 as it is stated, for a document that can be loaded: if no image gave
\* text the function returns a failure whose reason names the number of
\* candidate images that were tried; otherwise it returns, as a success,
\* the recovered text blocks joined by blank lines.
C24_ImageRecovery ==
    (pPhase = "done" /\ pOut.invoked /\ pIn.doc.loads) =>
        IF Recovered(pIn.doc) = << >>
        THEN /\ ~pOut.ocr.result.success
             /\ pOut.ocr.named = {Len(Candidates(pIn.doc))}
        ELSE pOut.ocr.result = Success(JoinBlank(Recovered(pIn.doc)))

\* What the code does: the number in the failure reason is the number of
\* images that gave text, which is 0 whenever the function fails; the
\* success is as stated.
C24_NamesZero ==
    (pPhase = "done" /\ pOut.invoked /\ pIn.doc.loads) =>
        IF Recovered(pIn.doc) = << >>
        THEN /\ ~pOut.ocr.result.success
             /\ pOut.ocr.named = {0}
             /\ pOut.ocr.tried = Len(Candidates(pIn.doc))
        ELSE pOut.ocr.result = Success(JoinBlank(Recovered(pIn.doc)))

\* Two candidate images were tried, neither gave text, and the reason
\* names 0 images.
C24_ZeroWitness ==
    /\ pPhase = "done" /\ pOut.invoked
    /\ Len(Candidates(pIn.doc)) = 2
    /\ pOut.ocr.tried = 2
    /\ pOut.ocr.named = {0}


(***************************************************************************)
(* SpecFind: find_matches (search.rs:382-389) as the engine calls it, with *)
(* the regex or the literal strategy, on every text and pattern within     *)
(* the bounds.                                                             *)
(***************************************************************************)
\* The configuration of the engine whose find_matches is called
FindConfig ==
    [DefaultConfig EXCEPT !.pattern = mPattern, !.case_sensitive = mCase,
                          !.use_regex = mRegex]

InitFind ==
    /\ mText \in SeqsUpTo(TextChars, MaxTextLen)
    /\ mPattern \in SeqsUpTo(PatChars, MaxPatLen)
    /\ mCase \in BOOLEAN
    /\ mRegex \in BOOLEAN
    /\ mst = [LitStart EXCEPT !.phase = "ready"]
    /\ NotMatchIdle

FindMatches ==
    /\ mst.phase = "ready"
    /\ mst' = find_matches(mText, FindConfig)
    /\ UNCHANGED <<mText, mPattern, mCase, mRegex>>
    /\ UNCHANGED notMatchVars

NextFind == FindMatches

SpecFind == InitFind /\ [][NextFind]_vars

\* p is a substring of s
IsSubstring(p, s) == \E k \in 1..(Len(s) + 1) : IsPrefixAt(s, k, p)

\* The matched texts of ms lie in the line one after the other, each
\* starting to the right of the one before
LeftToRight(ms, line) ==
    \E f \in [1..Len(ms) -> 1..(Len(line) + 1)] :
        /\ \A i \in 1..Len(ms) : IsPrefixAt(line, f[i], ms[i].matched_text)
        /\ \A i, j \in 1..Len(ms) : i < j => f[i] < f[j]

\* What find_matches gives for one line as a text of its own
LineAlone(line) == find_matches(Append(line, "LF"), FindConfig)

RECURSIVE MatchesOfLines(_)
\* The matches of the lines, each scanned alone, in line order
MatchesOfLines(lines) ==
    IF lines = << >> THEN << >>
    ELSE LineAlone(Head(lines)).matches \o MatchesOfLines(Tail(lines))

\* C25: for the regex and the literal strategy alike, the matches returned
\* for a text are those of its lines, each scanned on its own, in line
\* order; the context of a match is a whole line of the text and its
\* matched text a substring of that line; the matches of one line are
\* listed left to right; and a pattern that occurs in no single line (one
\* that holds a line break, or whose occurrences in the text all span one)
\* yields no match.
C25_PerLine ==
    mst.phase = "done" =>
        /\ mst.matches = MatchesOfLines(Lines(mText))
        /\ \A i \in DOMAIN mst.matches :
              /\ \E l \in DOMAIN Lines(mText) :
                    mst.matches[i].context = Lines(mText)[l]
              /\ IsSubstring(mst.matches[i].matched_text,
                             mst.matches[i].context)
        /\ \A l \in DOMAIN Lines(mText) :
              /\ LineAlone(Lines(mText)[l]).phase = "done"
              /\ LeftToRight(LineAlone(Lines(mText)[l]).matches,
                             Lines(mText)[l])
        /\ (\E i \in DOMAIN mPattern : mPattern[i] = "LF") =>
              mst.matches = << >>
        /\ Occurrences(mText, mPattern, mCase) = {} => mst.matches = << >>

\* The regex "a\n" was run on the text "a\na", which holds it across its
\* line break only: no match.
C25_Witness ==
    /\ mst.phase = "done"
    /\ mRegex
    /\ mText = <<"a", "LF", "a">>
    /\ mPattern = <<"a", "LF">>
    /\ mst.matches = << >>


(***************************************************************************)
(* SpecReuse: one file of the tree under two runs.  The first run has      *)
(* save_index set: its task extracts the file and queues the entry, and    *)
(* the run saves the cache.  The file stays as it is.  The second run has  *)
(* use_index set: it loads the cache and its task looks the file up.       *)
(* Beside the outcome of that task the specification keeps the outcome     *)
(* the same task has with no cache at all.  The file is a text file, an    *)
(* image or a PDF; what the format strategy of an image or a PDF gives     *)
(* depends on the ocr_enabled flag of the run that calls it.               *)
(***************************************************************************)
\* What the file's format strategy returns in a run with configuration cfg
StrategyResult(in, cfg) ==
    IF from_extension(ExtensionOf(in.path)) = "Pdf"
    THEN extract_pdf(in.pdf, cfg.ocr_enabled, in.feature).result
    ELSE in.content

\* The tree, of this one file, as a run with configuration cfg sees it
TreeFor(in, cfg) ==
    [p \in {in.path} |-> File(1, 1024, StrategyResult(in, cfg))]

ReuseContents == {Success(<<"a">>), Success(<<"b">>), Failure("strategy failed")}

ReusePdfs ==
    [layer : {TextErr, TextOk(<<"a">>), TextOk(<<"b">>)},
     doc : {PdfDoc(FALSE, << >>)}
               \cup {PdfDoc(TRUE, <<PdfObject(TRUE, 100, 100, TRUE,
                                              Success(<<t>>))>>) :
                        t \in {"a", "b"}}]

\* The flags of the two runs: the first saves the cache, the second uses it
WriterConfigs ==
    {[DefaultConfig EXCEPT !.pattern = pat, !.ocr_enabled = ocr,
                           !.save_index = TRUE, !.use_index = us] :
        pat \in {<<"a">>, <<"b">>}, ocr \in BOOLEAN, us \in BOOLEAN}

ReaderConfigs ==
    {[DefaultConfig EXCEPT !.pattern = pat, !.ocr_enabled = ocr,
                           !.save_index = sv, !.use_index = TRUE] :
        pat \in {<<"a">>, <<"b">>}, ocr \in BOOLEAN, sv \in BOOLEAN}

InitReuse ==
    /\ uIn \in [path : {"a.txt", "d.png", "e.pdf"}, content : ReuseContents,
                pdf : ReusePdfs, feature : BOOLEAN,
                writer : WriterConfigs, reader : ReaderConfigs]
    /\ uIn.writer.pattern = uIn.reader.pattern
    /\ uIn.path = "e.pdf" => uIn.content = Failure("strategy failed")
    /\ uIn.path # "e.pdf" =>
          /\ uIn.pdf = [layer |-> TextErr, doc |-> PdfDoc(FALSE, << >>)]
          /\ uIn.feature
    /\ uOut = [queued |-> << >>, disk |-> Absent, cached |-> NoOutcome,
               fresh |-> NoOutcome]
    /\ uPhase = "ready"
    /\ NotReuseIdle

\* The first run: SearchEngine::new on a tree without a cache file, the
\* task of the file, and the save that ends the run (search.rs:137-152)
WriteCache ==
    /\ uPhase = "ready"
    /\ \E now \in RunClock :
        LET cfg == uIn.writer
            files == TreeFor(uIn, cfg)
            idx == new(cfg, Absent, now)
            out == search_file_with_index(uIn.path, files, idx, cfg)
            merged == prune_missing(
                          UpsertAll(CHOOSE i \in idx : TRUE, out.queued),
                          files)
        IN  \E order \in Orders(DOMAIN merged.entries) :
               uOut' = [uOut EXCEPT
                           !.queued = out.queued,
                           !.disk = save(merged, Absent, now, order).disk]
    /\ uPhase' = "written"
    /\ UNCHANGED uIn
    /\ UNCHANGED notReuseVars

\* The second run: SearchEngine::new loads the cache file, and the task of
\* the file runs with the loaded cache; `fresh` is the same task with no
\* cache
ReadCache ==
    /\ uPhase = "written"
    /\ \E now \in RunClock :
        LET cfg == uIn.reader
            files == TreeFor(uIn, cfg)
        IN  uOut' = [uOut EXCEPT
                        !.cached =
                            search_file_with_index(
                                uIn.path, files, new(cfg, uOut.disk, now),
                                cfg),
                        !.fresh =
                            search_file_with_index(uIn.path, files, {}, cfg)]
    /\ uPhase' = "done"
    /\ UNCHANGED uIn
    /\ UNCHANGED notReuseVars

NextReuse == WriteCache \/ ReadCache

SpecReuse == InitReuse /\ [][NextReuse]_vars

\* The matches a task reports for its file
MatchesOf(outcome) ==
    IF outcome.result = {} THEN << >>
    ELSE (CHOOSE r \in outcome.result : TRUE).matches

\* C26 as it is stated: a run that takes the cached text of an unchanged
\* file reports the matches that it would report for that file with a fresh
\* extraction under its own configuration, whatever the OCR flags of the
\* run that wrote the entry and of the run that reads it.
C26_CacheTransparency ==
    (uPhase = "done" /\ uOut.cached.how = "cached") =>
        MatchesOf(uOut.cached) = MatchesOf(uOut.fresh)

\* What the code gives: the same matches when the two runs have the same
\* OCR flag, and for a text file in any case.
C26_SameFlagTransparency ==
    ( /\ uPhase = "done" /\ uOut.cached.how = "cached"
      /\ \/ uIn.writer.ocr_enabled = uIn.reader.ocr_enabled
         \/ uIn.path = "a.txt" ) =>
        /\ MatchesOf(uOut.cached) = MatchesOf(uOut.fresh)
        /\ uOut.fresh.how = "extracted"

\* An image was cached by a run with OCR, and a run with OCR read the
\* entry and found the match a fresh extraction finds.
C26_SameFlagWitness ==
    /\ uPhase = "done"
    /\ uIn.path = "d.png"
    /\ uIn.writer.ocr_enabled /\ uIn.reader.ocr_enabled
    /\ uOut.cached.how = "cached"
    /\ Len(MatchesOf(uOut.cached)) = 1
    /\ MatchesOf(uOut.fresh) = MatchesOf(uOut.cached)


=============================================================================
